---------------------------- MODULE Spec2Model ----------------------------
(***************************************************************************)
(* Verification model of live9369/wallet_monitor.                          *)
(*                                                                         *)
(* The components of the activity-ingestion pipeline are modelled, each    *)
(* with its own specification over its own group of variables:             *)
(*   SpecQueue / SpecQueueFair  TgBot delivery queue (src/src/notify/bot.js)*)
(*   SpecMonitor                WalletMonitor scan loop (unnamed/part_002) *)
(*   SpecLifecycle(Fair)        WalletMonitor start, stop, exit, restart   *)
(*   SpecScan                   BlockScanner range scans (src/db/redis.js) *)
(*   SpecTracked                range scans while the watched Set changes  *)
(*   SpecStore                  RefRedis graph store (src/src/db/redis.js) *)
(*   SpecDetect                 new-wallet detection (unnamed/part_002)    *)
(*   SpecAnalyze                analyzeTransaction on one transaction      *)
(*                              (src/cleanup_contract_address.js)          *)
(*   SpecEnroll                 one transaction up to addNewWallet's end   *)
(*   SpecCatchUp                the scan loop with a large batch width     *)
(*   SpecParse                  TransactionProcessor (src/src/db/redis.js) *)
(*   SpecWallets                store inserts, removals and clearAllWallets*)
(*   SpecCommands               detection with addWallet and removeWallet  *)
(***************************************************************************)
EXTENDS Integers, Sequences, FiniteSets, TLC

VARIABLES
    \* ---- TgBot (src/src/notify/bot.js) ----
    messageQueue,     \* this.messageQueue: sequence of [id, retryCount]
                      \* (under SpecDetect: of [kind, wallet, refer])
    isProcessing,     \* this.isProcessing
    rateLimitUntil,   \* this.rateLimitUntil (ms)
    retryCount,       \* this.retryCount
    now,              \* Date.now() (ms)
    inFlight,         \* bot.sendMessage promises not yet settled
    sinkMode,         \* how the notification sink answers
    nextMsg,          \* next fresh alert identity
    enqueued,         \* history: alerts passed to queueMessage
    handed,           \* history: times bot.sendMessage was called per alert
    requeued,         \* history: times the alert was unshift-ed back
    delivered,        \* history: successful sends per alert
    permFail,         \* history: "max retries reached" reports per alert
    sendFail,         \* history: "TG send failed" reports per alert
    lastAnswer,       \* history: the sink's answer handled last
    \* ---- WalletMonitor scan loop (src/unnamed/part_002) ----
    isRunning,          \* this.isRunning
    lastProcessedBlock, \* this.lastProcessedBlock
    processedBlocks,    \* this.stats.processedBlocks
    foundTransactions,  \* this.stats.foundTransactions
    cfgBatchSize,       \* this.config.batchSize
    pc,                 \* where startMonitoringLoop / scanNewBlocks stands
    head,               \* the chain's newest block number
    startBlock,         \* scanNewBlocks: startBlock
    endBlock,           \* scanNewBlocks: endBlock
    results,            \* scanNewBlocks: results.length
    txIdx,              \* processTransactions: transactions handled so far
    lastAlert,          \* history: kind of the last alert the monitor sent
    initCheckpoint,     \* history: lastProcessedBlock as set by start()
    covered,            \* history: completed scan ranges covering each block
    tickStart,          \* history: checkpoint and counter when the tick began
    stopPc,             \* where stop() is: "none", "status", "returned"
    connected,          \* the store connection is open
    statusAlert,        \* where the status summary queued by stop() is
    runs,               \* number of times the monitor was started
    txFailed,           \* history: the loop of processTransactions caught
                        \* an error in the batch of the last tick
    \* ---- RefRedis graph store (src/src/db/redis.js) ----
    nodes,            \* the hash stored at nodeKey(wallet), per key
    allWallets,       \* the members of the set at allWalletsKey()
    nextId,           \* generateId: the next fresh id
    calls,            \* per caller: the addNodeLite call under way
    callsStarted,     \* number of calls made so far
    everStored,       \* history: every hash ever written, per key
    parentRead,       \* history: the parent hash a call read, per node id
    \* ---- WalletMonitor: tracked set and new-wallet detection ----
    monitoredAddresses,  \* the in-memory Set of tracked addresses
    addressNames,        \* the in-memory Map address -> name ("" = no entry)
    watchedAddresses,    \* the scanner's watched Set
    sentNotifications,   \* stats.sentNotifications
    newWalletsAdded,     \* stats.newWalletsAdded
    det,                 \* the transaction being processed and where it is
    manual,              \* the manual addWallet command under way
    txCount,             \* number of transactions processed so far
    manualCount,         \* number of manual commands issued so far
    restarts,            \* number of restarts so far
    announced,           \* history: enrollment alerts queued, per wallet
    enrollments,         \* history: the (wallet, inducer) pairs enrolled
    erroredWallets,      \* history: wallets whose enrollment logged an error
    flaggedWallets,      \* history: wallets the exchange lookup has flagged
    \* ---- BlockScanner range scans (src/src/db/redis.js) ----
    scanMode,         \* "sequential" (scanBlockRange) or "parallel"
    scanPc,           \* "idle", "running", "returned" or "threw"
    scanEnd,          \* endBlock of the scan (startBlock is FirstBlock)
    waveStart,        \* first block of the current wave / the loop's block
    settled,          \* per block of the wave: the settled processBlock value
    arrived,          \* history: the deltas in the order the promises settled
    allResults,       \* the results array of the scan
    fetched,          \* history: how each block's fetch was answered
    receiptAnswer,    \* history: how each receipt request was answered
    receiptTries,     \* history: receipt requests made per transaction
    chainName,        \* which chain the provider serves
    scanMin,          \* the scanner's config.minValue
    snapshot,         \* history: the watched Set when the scan was called
    peakReceipts,     \* history: most receipt requests issued at once
    \* ---- processTransactions on one transaction (src/unnamed/part_002) ----
    currentTx,        \* the transaction of the loop
    analysis,         \* the value analyzeTransaction returned for it
    analyzePc,        \* "taken", "analyzed" or "done"
    \* ---- TransactionProcessor.processTransactions (src/src/db/redis.js) ----
    transactionsSeen, \* history: the transactions the loop has taken
    parsedResults     \* the results array

queueVars == <<messageQueue, isProcessing, rateLimitUntil, retryCount, now,
               inFlight, sinkMode, nextMsg, enqueued, handed, requeued,
               delivered, permFail, sendFail, lastAnswer>>

monitorVars == <<isRunning, lastProcessedBlock, processedBlocks,
                 foundTransactions, cfgBatchSize, pc, head, startBlock,
                 endBlock, results, txIdx, lastAlert, initCheckpoint, covered,
                 tickStart,
                 stopPc, connected, statusAlert, runs, txFailed>>

storeVars == <<nodes, allWallets, nextId, calls, callsStarted, everStored,
               parentRead>>

detectVars == <<monitoredAddresses, addressNames, watchedAddresses,
                sentNotifications, newWalletsAdded, det, manual, txCount,
                manualCount, restarts, announced, enrollments, erroredWallets,
                   flaggedWallets>>

scanVars == <<scanMode, scanPc, scanEnd, waveStart, settled, arrived,
              allResults, fetched, receiptAnswer, receiptTries, chainName,
              scanMin, snapshot, peakReceipts>>

\* The detection state other than the scanner's watched Set.
detectRest == <<monitoredAddresses, addressNames, sentNotifications,
                newWalletsAdded, det, manual, txCount, manualCount, restarts,
                announced, enrollments, erroredWallets,
                   flaggedWallets>>

\* The delivery queue's state other than the queue itself.
queueRest == <<isProcessing, rateLimitUntil, retryCount, now, inFlight,
               sinkMode, nextMsg, enqueued, handed, requeued, delivered,
               permFail, sendFail, lastAnswer>>

analyzeVars == <<currentTx, analysis, analyzePc>>

parseVars == <<transactionsSeen, parsedResults>>

vars == <<queueVars, monitorVars, storeVars, detectVars, scanVars,
          analyzeVars, parseVars>>

\* The variables of the other components, which a component's step leaves alone.
outsideQueue == <<monitorVars, storeVars, detectVars, scanVars, analyzeVars,
                  parseVars>>

outsideMonitor == <<queueVars, storeVars, detectVars, scanVars, analyzeVars,
                  parseVars>>

outsideStore == <<queueVars, monitorVars, detectVars, scanVars, analyzeVars,
                  parseVars>>

outsideDetect == <<queueRest, monitorVars, scanVars, analyzeVars, parseVars>>

outsideScan == <<queueVars, monitorVars, storeVars, detectVars, analyzeVars,
                  parseVars>>

outsideAnalyze == <<queueRest, monitorVars, storeVars, scanVars, parseVars>>

outsideParse == <<queueVars, monitorVars, storeVars, detectVars, scanVars,
                  analyzeVars>>

-----------------------------------------------------------------------------
(***************************************************************************)
(* Bounds of the model.                                                    *)
(***************************************************************************)
MaxMsgs == 2          \* alerts created in one run when the sink may refuse
MaxAcceptMsgs == 6    \* alerts created in one run when the sink accepts all
MaxImmediate == 1     \* of which sent through sendHtmlImmediate
MaxRetryAfter == 1    \* largest "retry after N" the sink states explicitly
MaxHead == 23         \* newest block number the chain reaches
MaxInitHead == 2      \* newest block number when the monitor is started
MaxLag == 1           \* blocks the provider's answer may lag behind the head
MaxTx == 2            \* deltas one scan returns
MaxFound == 3         \* cap of the foundTransactions counter
MaxRuns == 2          \* times the monitor process is started
MaxShortHead == 5     \* highest block of the chain in the stop/start runs
MaxRangeLen == 11     \* blocks in the long range a scan is given
MaxShortRange == 5    \* blocks in the longest of the short ranges
MaxFetchFailures == 2 \* block fetches that fail during one scan
MaxReceiptMisses == 2 \* receipt requests of one scan that give no receipt
MaxMinValue == 1      \* largest minValue the scanner is configured with
MaxCalls == 3         \* addNodeLite calls made in one run
MaxTxs == 3           \* transactions handed to processTransactions
MaxManual == 2        \* manual addWallet commands
MaxRestarts == 1      \* restarts of the monitor
MaxChanges == 2       \* token changes in one transaction
MaxLogs == 2          \* logs in one receipt
MaxBlockTxs == 2      \* transactions processTransactions is given

-----------------------------------------------------------------------------
(***************************************************************************)
(* TgBot: the delivery queue.                                              *)
(***************************************************************************)
maxRetries == 3
batchSize == 5
DefaultRetryAfter == 2
SecondMs == 1000

Min(a, b) == IF a <= b THEN a ELSE b

Max(a, b) == IF a >= b THEN a ELSE b

MsgIds == 1..Max(MaxMsgs, MaxAcceptMsgs)

\* How many alerts one run creates, by the sink's behaviour.
MsgLimit == IF sinkMode = "accept" THEN MaxAcceptMsgs ELSE MaxMsgs

NoRetryAfter == 0

\* No answer handled yet.
NoAnswer == [kind |-> "none", retryAfter |-> NoRetryAfter]

\* The sink's possible answers to one bot.sendMessage call.  A 429 answer
\* carries the text "retry after N" (retryAfter = N) or no such text.
SinkAnswers ==
    [kind : {"ok"}, retryAfter : {NoRetryAfter}]
    \cup [kind : {"429"}, retryAfter : {NoRetryAfter} \cup 1..MaxRetryAfter]
    \cup [kind : {"error"}, retryAfter : {NoRetryAfter}]

AnswersOf(mode) ==
    CASE mode = "accept"   -> {a \in SinkAnswers : a.kind = "ok"}
      [] mode = "throttle" -> {a \in SinkAnswers : a.kind = "429"}
      [] OTHER             -> SinkAnswers

\* Mutant: the stated retry-after is ignored.
ParseRetryAfterIgnored(answer) == DefaultRetryAfter

\* Mutant: every failed send is treated as throttling.
IsThrottleForEveryError(answer) == answer.kind # "ok"

\* error.message.includes('429 Too Many Requests')
IsThrottle(answer) == answer.kind = "429"

\* error.message.match(/retry after (\d+)/) ? parseInt(..) : 2
ParseRetryAfter(answer) ==
    IF answer.retryAfter = NoRetryAfter THEN DefaultRetryAfter
    ELSE answer.retryAfter

Bump(f, id) == [f EXCEPT ![id] = @ + 1]

InitQueue ==
    /\ messageQueue = <<>>
    /\ isProcessing = FALSE
    /\ rateLimitUntil = 0
    /\ retryCount = 0
    /\ now = 0
    /\ inFlight = {}
    /\ sinkMode \in {"accept", "throttle", "mixed"}
    /\ nextMsg = 1
    /\ enqueued = {}
    /\ handed = [i \in MsgIds |-> 0]
    /\ requeued = [i \in MsgIds |-> 0]
    /\ delivered = [i \in MsgIds |-> 0]
    /\ permFail = [i \in MsgIds |-> 0]
    /\ sendFail = [i \in MsgIds |-> 0]
    /\ lastAnswer = NoAnswer

\* queueMessage / sendHtml: push {chatId, html, ...} (no retryCount field,
\* read back as 0 by the destructuring default).
QueueMessage ==
    /\ nextMsg <= MsgLimit
    /\ messageQueue' = Append(messageQueue, [id |-> nextMsg, retryCount |-> 0])
    /\ enqueued' = enqueued \cup {nextMsg}
    /\ nextMsg' = nextMsg + 1
    /\ UNCHANGED <<isProcessing, rateLimitUntil, retryCount, now, inFlight,
                   sinkMode, handed, requeued, delivered, permFail, sendFail,
                   lastAnswer>>
    /\ UNCHANGED outsideQueue

\* sendHtmlImmediate: sendMessageWithRetry on a fresh message, which calls
\* bot.sendMessage before its first suspension.
SendHtmlImmediate ==
    /\ nextMsg <= MsgLimit
    /\ nextMsg - 1 - Cardinality(enqueued) < MaxImmediate
    /\ inFlight' = inFlight \cup
            {[id |-> nextMsg, retryCount |-> 0, via |-> "immediate"]}
    /\ handed' = Bump(handed, nextMsg)
    /\ nextMsg' = nextMsg + 1
    /\ UNCHANGED <<messageQueue, isProcessing, rateLimitUntil, retryCount, now,
                   sinkMode, enqueued, requeued, delivered, permFail, sendFail,
                   lastAnswer>>
    /\ UNCHANGED outsideQueue

\* Mutant: the splice takes the whole buffer.
BatchUnbounded(q) == q

\* The batch taken by messageQueue.splice(0, batchSize).
Batch(q) == SubSeq(q, 1, Min(batchSize, Len(q)))

\* Mutant: the splice leaves the last element of the batch in the buffer.
RestOverlapping(q) == SubSeq(q, Min(batchSize, Len(q)), Len(q))

Rest(q) == SubSeq(q, Min(batchSize, Len(q)) + 1, Len(q))

\* Mutant: the throttle window is ignored.
RateLimitedNever == FALSE

\* Date.now() < this.rateLimitUntil
RateLimited == now < rateLimitUntil

\* processQueue, run by the setInterval timer: the early returns, then the
\* splice and the synchronous part of every sendMessageWithRetry of the batch
\* (up to its await of bot.sendMessage).
ProcessQueue ==
    /\ UNCHANGED outsideQueue
    /\ IF isProcessing \/ Len(messageQueue) = 0 \/ RateLimited
       THEN UNCHANGED queueVars
       ELSE
         LET batch == Batch(messageQueue)
             ids == {batch[i].id : i \in 1..Len(batch)}
         IN /\ isProcessing' = TRUE
            /\ messageQueue' = Rest(messageQueue)
            /\ inFlight' = inFlight \cup
                 {[id |-> batch[i].id, retryCount |-> batch[i].retryCount,
                   via |-> "queue"] : i \in 1..Len(batch)}
            /\ handed' = [i \in MsgIds |->
                            IF i \in ids THEN handed[i] + 1 ELSE handed[i]]
            /\ UNCHANGED <<rateLimitUntil, retryCount, now, sinkMode, nextMsg,
                           enqueued, requeued, delivered, permFail, sendFail,
                           lastAnswer>>

\* Mutant: isProcessing is never cleared.
BatchNeverSettles(m) == FALSE

\* finally { this.isProcessing = false } runs once Promise.allSettled of the
\* batch resolves, i.e. with the settling of the batch's last send.
BatchSettledBy(m) ==
    m.via = "queue" /\ ~\E o \in inFlight \ {m} : o.via = "queue"

\* Mutant: one retry too many.
MayRetryOffByOne(m) == m.retryCount <= maxRetries

\* if (retryCount < this.maxRetries)
MayRetry(m) == m.retryCount < maxRetries

\* The rest of sendMessageWithRetry: the sink's answer to the send of m.
SendMessageWithRetry(m, answer) ==
    /\ m \in inFlight
    /\ answer \in AnswersOf(sinkMode)
    /\ inFlight' = inFlight \ {m}
    /\ isProcessing' = IF BatchSettledBy(m) THEN FALSE ELSE isProcessing
    /\ CASE answer.kind = "ok" ->
              /\ retryCount' = 0
              /\ delivered' = Bump(delivered, m.id)
              /\ UNCHANGED <<messageQueue, rateLimitUntil, requeued, permFail,
                             sendFail>>
         [] IsThrottle(answer) ->
              /\ rateLimitUntil' = now + ParseRetryAfter(answer) * SecondMs
              /\ IF MayRetry(m)
                 THEN /\ messageQueue' =
                           <<[id |-> m.id, retryCount |-> m.retryCount + 1]>>
                           \o messageQueue
                      /\ requeued' = Bump(requeued, m.id)
                      /\ UNCHANGED permFail
                 ELSE /\ permFail' = Bump(permFail, m.id)
                      /\ UNCHANGED <<messageQueue, requeued>>
              /\ UNCHANGED <<retryCount, delivered, sendFail>>
         [] OTHER ->
              /\ sendFail' = Bump(sendFail, m.id)
              /\ UNCHANGED <<messageQueue, rateLimitUntil, retryCount, requeued,
                             delivered, permFail>>
    /\ lastAnswer' = answer
    /\ UNCHANGED <<now, sinkMode, nextMsg, enqueued, handed>>
    /\ UNCHANGED outsideQueue

SinkAnswer == \E m \in inFlight : \E a \in SinkAnswers : SendMessageWithRetry(m, a)

\* Time passing.  The clock is read only by the comparison in processQueue
\* and by the assignment of rateLimitUntil, so only its position relative to
\* rateLimitUntil is observable: it is advanced while a throttle window is
\* open.  Both times are measured from the moment the last throttle window
\* closed: when the clock reaches rateLimitUntil the origin is moved there,
\* which leaves every comparison and every sum of the code as it is.
AdvanceTime ==
    /\ now < rateLimitUntil
    /\ IF now + SecondMs = rateLimitUntil
       THEN now' = 0 /\ rateLimitUntil' = 0
       ELSE now' = now + SecondMs /\ UNCHANGED rateLimitUntil
    /\ UNCHANGED <<messageQueue, isProcessing, retryCount,
                   inFlight, sinkMode, nextMsg, enqueued, handed, requeued,
                   delivered, permFail, sendFail, lastAnswer>>
    /\ UNCHANGED outsideQueue

NextQueue ==
    \/ QueueMessage
    \/ SendHtmlImmediate
    \/ ProcessQueue
    \/ SinkAnswer
    \/ AdvanceTime


-----------------------------------------------------------------------------
(***************************************************************************)
(* WalletMonitor: the scan loop.                                           *)
(***************************************************************************)
DefaultBatchSize == 5
WideBacklog == 20
WideBatch == 20

\* this.config.batchSize = parseInt(options.batchSize || env) || 5
BatchSizes == {2, DefaultBatchSize}

Blocks == 1..MaxHead

\* getLatestBlockNumber: the provider's block number, which may lag behind
\* the chain's head, or 0 when the request fails.
LatestBlockAnswers == {0} \cup {b \in 0..head : head - b <= MaxLag}

NoTick == [checkpoint |-> 0, processed |-> 0]

\* The state the constructor leaves.
MonitorConstructed ==
    /\ isRunning = FALSE
    /\ lastProcessedBlock = 0
    /\ processedBlocks = 0
    /\ foundTransactions = 0
    /\ cfgBatchSize = DefaultBatchSize
    /\ pc = "init"
    /\ head = 0
    /\ startBlock = 0
    /\ endBlock = 0
    /\ results = 0
    /\ txIdx = 0
    /\ lastAlert = "none"
    /\ initCheckpoint = 0
    /\ covered = [b \in Blocks |-> 0]
    /\ tickStart = NoTick
    /\ stopPc = "none"
    /\ connected = FALSE
    /\ statusAlert = "none"
    /\ runs = 0
    /\ txFailed = FALSE

\* The monitor is constructed and never started: no block is covered.
MonitorUnused ==
    /\ isRunning = FALSE
    /\ lastProcessedBlock = 0
    /\ processedBlocks = 0
    /\ foundTransactions = 0
    /\ cfgBatchSize = DefaultBatchSize
    /\ pc = "init"
    /\ head = 0
    /\ startBlock = 0
    /\ endBlock = 0
    /\ results = 0
    /\ txIdx = 0
    /\ lastAlert = "none"
    /\ initCheckpoint = 0
    /\ covered = <<>>
    /\ tickStart = NoTick
    /\ stopPc = "none"
    /\ connected = FALSE
    /\ statusAlert = "none"
    /\ runs = 0
    /\ txFailed = FALSE

InitMonitor ==
    /\ isRunning = FALSE
    /\ lastProcessedBlock = 0
    /\ processedBlocks = 0
    /\ foundTransactions = 0
    /\ cfgBatchSize \in BatchSizes
    /\ pc = "init"
    /\ head \in 0..MaxInitHead
    /\ startBlock = 0
    /\ endBlock = 0
    /\ results = 0
    /\ txIdx = 0
    /\ lastAlert = "none"
    /\ initCheckpoint = 0
    /\ covered = [b \in Blocks |-> 0]
    /\ tickStart = NoTick
    /\ stopPc = "none"
    /\ connected = FALSE
    /\ statusAlert = "none"
    /\ runs = 0
    /\ txFailed = FALSE

\* A batch width configured above the width of the catch-up mode
\* (BATCH_SIZE in the environment, or options.batchSize).
LargeBatchSize == WideBatch + 1

\* The monitor constructed with the large batch width.
InitCatchUp ==
    /\ isRunning = FALSE
    /\ lastProcessedBlock = 0
    /\ processedBlocks = 0
    /\ foundTransactions = 0
    /\ cfgBatchSize = LargeBatchSize
    /\ pc = "init"
    /\ head \in 0..MaxInitHead
    /\ startBlock = 0
    /\ endBlock = 0
    /\ results = 0
    /\ txIdx = 0
    /\ lastAlert = "none"
    /\ initCheckpoint = 0
    /\ covered = [b \in Blocks |-> 0]
    /\ tickStart = NoTick
    /\ stopPc = "none"
    /\ connected = FALSE
    /\ statusAlert = "none"
    /\ runs = 0
    /\ txFailed = FALSE

\* The chain grows by one block, up to a bound.
ChainGrows(limit) ==
    /\ pc # "init"
    /\ head < limit
    /\ head' = head + 1
    /\ UNCHANGED <<isRunning, lastProcessedBlock, processedBlocks,
                   foundTransactions, cfgBatchSize, pc, startBlock, endBlock,
                   results, txIdx, lastAlert, initCheckpoint, covered,
                   tickStart>>
    /\ UNCHANGED <<stopPc, connected, statusAlert, runs>>
    /\ UNCHANGED txFailed
    /\ UNCHANGED outsideMonitor

NewBlock == ChainGrows(MaxHead)

\* The chain of the runs in which the monitor is stopped and started again.
NewBlockShort == ChainGrows(MaxShortHead)

\* start(): redis.connect(); lastProcessedBlock = await
\* getLatestBlockNumber(); isRunning = true; startMonitoringLoop().
Start ==
    /\ pc = "init"
    /\ \E latest \in LatestBlockAnswers :
          /\ lastProcessedBlock' = latest
          /\ initCheckpoint' = latest
    /\ isRunning' = TRUE
    /\ connected' = TRUE
    /\ runs' = 1
    /\ pc' = "loop"
    /\ UNCHANGED <<processedBlocks, foundTransactions, cfgBatchSize, head,
                   startBlock, endBlock, results, txIdx, lastAlert, covered,
                   tickStart, stopPc, statusAlert>>
    /\ UNCHANGED txFailed
    /\ UNCHANGED outsideMonitor

\* stop() up to its first await: isRunning = false, then sendSystemStatus
\* passes the status summary to sendHtml, which appends it to the delivery
\* buffer and resolves 50 ms later.  The monitoring loop is not awaited.
Stop ==
    /\ isRunning
    /\ stopPc = "none"
    /\ isRunning' = FALSE
    /\ lastAlert' = "status"
    /\ statusAlert' = "buffered"
    /\ stopPc' = "status"
    /\ UNCHANGED <<lastProcessedBlock, processedBlocks, foundTransactions,
                   cfgBatchSize, pc, head, startBlock, endBlock, results,
                   txIdx, initCheckpoint, covered, tickStart, connected, runs>>
    /\ UNCHANGED txFailed
    /\ UNCHANGED outsideMonitor

\* stop() after sendHtml's 50 ms: redis.disconnect() (a failure is caught and
\* logged), then stop() returns.
StopDisconnects ==
    /\ stopPc = "status"
    /\ connected' = FALSE
    /\ stopPc' = "returned"
    /\ UNCHANGED <<isRunning, lastProcessedBlock, processedBlocks,
                   foundTransactions, cfgBatchSize, pc, head, startBlock,
                   endBlock, results, txIdx, lastAlert, initCheckpoint,
                   covered, tickStart, statusAlert, runs>>
    /\ UNCHANGED txFailed
    /\ UNCHANGED outsideMonitor

\* The dispatcher's 200 ms timer hands the buffered status summary to the sink.
DispatchStatus ==
    /\ pc # "killed"
    /\ statusAlert = "buffered"
    /\ statusAlert' = "sending"
    /\ UNCHANGED <<isRunning, lastProcessedBlock, processedBlocks,
                   foundTransactions, cfgBatchSize, pc, head, startBlock,
                   endBlock, results, txIdx, lastAlert, initCheckpoint,
                   covered, tickStart, stopPc, connected, runs>>
    /\ UNCHANGED txFailed
    /\ UNCHANGED outsideMonitor

\* The sink accepts the status summary.
StatusDelivered ==
    /\ pc # "killed"
    /\ statusAlert = "sending"
    /\ statusAlert' = "delivered"
    /\ UNCHANGED <<isRunning, lastProcessedBlock, processedBlocks,
                   foundTransactions, cfgBatchSize, pc, head, startBlock,
                   endBlock, results, txIdx, lastAlert, initCheckpoint,
                   covered, tickStart, stopPc, connected, runs>>
    /\ UNCHANGED txFailed
    /\ UNCHANGED outsideMonitor

\* The signal handler: await monitor.stop(); process.exit(0).  The process
\* ends wherever the loop is, and with it the timers and the delivery buffer.
ProcessExit ==
    /\ stopPc = "returned"
    /\ pc # "killed"
    /\ pc' = "killed"
    /\ UNCHANGED <<isRunning, lastProcessedBlock, processedBlocks,
                   foundTransactions, cfgBatchSize, head, startBlock,
                   endBlock, results, txIdx, lastAlert, initCheckpoint,
                   covered, tickStart, stopPc, connected, statusAlert, runs>>
    /\ UNCHANGED txFailed
    /\ UNCHANGED outsideMonitor

\* The monitor is run again: a new process constructs the monitor and calls
\* start(), which takes the provider's block number as the checkpoint.
StartAgain ==
    /\ pc = "killed"
    /\ runs < MaxRuns
    /\ \E latest \in LatestBlockAnswers :
          /\ lastProcessedBlock' = latest
          /\ initCheckpoint' = latest
    /\ isRunning' = TRUE
    /\ connected' = TRUE
    /\ runs' = runs + 1
    /\ pc' = "loop"
    /\ processedBlocks' = 0
    /\ foundTransactions' = 0
    /\ startBlock' = 0
    /\ endBlock' = 0
    /\ results' = 0
    /\ txIdx' = 0
    /\ lastAlert' = "none"
    /\ covered' = [b \in Blocks |-> 0]
    /\ tickStart' = NoTick
    /\ stopPc' = "none"
    /\ statusAlert' = "none"
    /\ UNCHANGED <<cfgBatchSize, head>>
    /\ UNCHANGED txFailed
    /\ UNCHANGED outsideMonitor

\* while (this.isRunning) found false: the loop ends.
LoopExit ==
    /\ pc = "loop"
    /\ ~isRunning
    /\ pc' = "exited"
    /\ UNCHANGED <<isRunning, lastProcessedBlock, processedBlocks,
                   foundTransactions, cfgBatchSize, head, startBlock, endBlock,
                   results, txIdx, lastAlert, initCheckpoint, covered,
                   tickStart>>
    /\ UNCHANGED <<stopPc, connected, statusAlert, runs>>
    /\ UNCHANGED txFailed
    /\ UNCHANGED outsideMonitor

\* Mutant: the range starts at the checkpoint itself.
StartBlockAtCheckpoint == lastProcessedBlock

\* const startBlock = this.lastProcessedBlock + 1
StartBlockOf == lastProcessedBlock + 1

\* let batchSize = config.batchSize; if (total > 20) batchSize = min(20, total)
TickBatchSize(total) ==
    IF total > WideBacklog THEN Min(WideBatch, total) ELSE cfgBatchSize

\* const endBlock = Math.min(currentBlock, startBlock + batchSize - 1)
EndBlockOf(currentBlock) ==
    Min(currentBlock,
        StartBlockOf + TickBatchSize(currentBlock - lastProcessedBlock) - 1)

\* The assignments that close a tick (part_002 lines 225-227), with the
\* record of the completed range.
Commit ==
    /\ lastProcessedBlock' = endBlock
    /\ processedBlocks' = processedBlocks + (endBlock - startBlock + 1)
    /\ covered' = [b \in Blocks |->
                     IF startBlock <= b /\ b <= endBlock
                     THEN covered[b] + 1 ELSE covered[b]]
    /\ startBlock' = 0
    /\ endBlock' = 0
    /\ results' = 0
    /\ txIdx' = 0
    /\ pc' = "sleeping"

\* Mutant: the early return is missing.
NoNewBlockNeverHolds(currentBlock) == FALSE

\* if (currentBlock <= this.lastProcessedBlock) return
NoNewBlock(currentBlock) == currentBlock <= lastProcessedBlock

\* A tick begins: scanNewBlocks up to its await of scanBlockRangeParallel,
\* or its early return when there is no new block.
TickBegin ==
    /\ pc = "loop"
    /\ isRunning
    /\ tickStart' = [checkpoint |-> lastProcessedBlock,
                     processed |-> processedBlocks]
    /\ \E currentBlock \in LatestBlockAnswers :
          IF NoNewBlock(currentBlock)
          THEN /\ pc' = "sleeping"
               /\ UNCHANGED <<startBlock, endBlock>>
          ELSE /\ startBlock' = StartBlockOf
               /\ endBlock' = EndBlockOf(currentBlock)
               /\ pc' = "scanning"
    /\ txFailed' = FALSE
    /\ UNCHANGED <<isRunning, lastProcessedBlock, processedBlocks,
                   foundTransactions, cfgBatchSize, head, results, txIdx,
                   lastAlert, initCheckpoint, covered>>
    /\ UNCHANGED <<stopPc, connected, statusAlert, runs>>
    /\ UNCHANGED outsideMonitor

\* scanBlockRangeParallel returns n deltas.  With none, the tick goes
\* straight on to its closing assignments.
ScanReturns ==
    /\ pc = "scanning"
    /\ \E n \in 0..Min(MaxTx, MaxFound - foundTransactions) :
          IF n > 0
          THEN /\ results' = n
               /\ txIdx' = 0
               /\ pc' = "processing"
               /\ UNCHANGED <<lastProcessedBlock, processedBlocks,
                              foundTransactions, covered, startBlock,
                              endBlock>>
          ELSE /\ Commit
               /\ foundTransactions' = foundTransactions + n
    /\ UNCHANGED <<isRunning, cfgBatchSize, head, lastAlert, initCheckpoint,
                   tickStart>>
    /\ UNCHANGED <<stopPc, connected, statusAlert, runs>>
    /\ UNCHANGED txFailed
    /\ UNCHANGED outsideMonitor

\* Mutant: the loop over the transactions ends after the first one.
LastTransactionAlways == TRUE

\* for (const tx of transactions): tx is the last one
LastTransaction == txIdx + 1 = results

\* Mutant: the error of a transaction leaves the loop.
ErrorEscapesLoop(failed) == failed

\* The body of the loop is one try whose catch logs the error, and
\* checkNewWallet has a try of its own: no error of analyzeTransaction,
\* sendTransactionNotification or checkNewWallet leaves the loop.
LoopThrows(failed) == FALSE

\* processTransactions handles one more transaction, or catches and logs the
\* error raised while analyzing it, notifying about it or checking it for a
\* new wallet; after the last one the tick goes on to its closing
\* assignments.
ProcessTransaction ==
    /\ pc = "processing"
    /\ txIdx < results
    /\ \E failed \in BOOLEAN :
          IF LoopThrows(failed)
          THEN /\ pc' = "caught"
               /\ startBlock' = 0
               /\ endBlock' = 0
               /\ results' = 0
               /\ txIdx' = 0
               /\ UNCHANGED <<lastProcessedBlock, processedBlocks,
                              foundTransactions, covered, txFailed>>
          ELSE /\ txFailed' = (txFailed \/ failed)
               /\ IF LastTransaction
                  THEN /\ Commit
                       /\ foundTransactions' = foundTransactions + results
                  ELSE /\ txIdx' = txIdx + 1
                       /\ UNCHANGED <<lastProcessedBlock, processedBlocks,
                                      foundTransactions, covered, pc,
                                      startBlock, endBlock, results>>
    /\ UNCHANGED <<isRunning, cfgBatchSize, head, lastAlert, initCheckpoint,
                   tickStart>>
    /\ UNCHANGED <<stopPc, connected, statusAlert, runs>>
    /\ UNCHANGED outsideMonitor

\* scanBlockRangeParallel rejects: scanNewBlocks logs and rethrows (lines
\* 229-232) into the catch of startMonitoringLoop.
TickThrows ==
    /\ pc = "scanning"
    /\ pc' = "caught"
    /\ startBlock' = 0
    /\ endBlock' = 0
    /\ results' = 0
    /\ txIdx' = 0
    /\ UNCHANGED <<isRunning, lastProcessedBlock, processedBlocks,
                   foundTransactions, cfgBatchSize, head, lastAlert,
                   initCheckpoint, covered, tickStart>>
    /\ UNCHANGED <<stopPc, connected, statusAlert, runs>>
    /\ UNCHANGED txFailed
    /\ UNCHANGED outsideMonitor

EmissionErrorEscapes(emitted) == ~emitted

\* An exception of the emission leaves sendErrorNotification: its whole body
\* is inside try/catch, so none does.
ErrorNotificationThrows(emitted) == FALSE

\* catch: sendErrorNotification passes an error alert to sendHtml; when the
\* emission fails the failure is logged.  An exception raised inside the
\* catch block would reject the loop's promise.
ErrorNotification ==
    /\ pc = "caught"
    /\ \E emitted \in BOOLEAN :
          /\ lastAlert' = IF emitted THEN "error" ELSE lastAlert
          /\ pc' = IF ErrorNotificationThrows(emitted) THEN "crashed"
                                                       ELSE "cooldown"
    /\ UNCHANGED <<isRunning, lastProcessedBlock, processedBlocks,
                   foundTransactions, cfgBatchSize, head, startBlock, endBlock,
                   results, txIdx, initCheckpoint, covered, tickStart>>
    /\ UNCHANGED <<stopPc, connected, statusAlert, runs>>
    /\ UNCHANGED txFailed
    /\ UNCHANGED outsideMonitor

\* sleep(scanInterval) after a tick, or sleep(5000) after an error, is over.
Wake ==
    /\ pc \in {"sleeping", "cooldown"}
    /\ pc' = "loop"
    /\ UNCHANGED <<isRunning, lastProcessedBlock, processedBlocks,
                   foundTransactions, cfgBatchSize, head, startBlock, endBlock,
                   results, txIdx, lastAlert, initCheckpoint, covered,
                   tickStart>>
    /\ UNCHANGED <<stopPc, connected, statusAlert, runs>>
    /\ UNCHANGED txFailed
    /\ UNCHANGED outsideMonitor

NextMonitor ==
    \/ NewBlock
    \/ Start
    \/ Stop
    \/ StopDisconnects
    \/ LoopExit
    \/ TickBegin
    \/ ScanReturns
    \/ ProcessTransaction
    \/ TickThrows
    \/ ErrorNotification
    \/ Wake

\* The monitor's life: runs, stop(), the end of the process, another run.
NextLifecycle ==
    \/ NewBlockShort
    \/ Start
    \/ Stop
    \/ StopDisconnects
    \/ DispatchStatus
    \/ StatusDelivered
    \/ ProcessExit
    \/ StartAgain
    \/ LoopExit
    \/ TickBegin
    \/ ScanReturns
    \/ ProcessTransaction
    \/ TickThrows
    \/ ErrorNotification
    \/ Wake

-----------------------------------------------------------------------------
(***************************************************************************)
(* RefRedis: the graph store.                                              *)
(*                                                                         *)
(* Every redis command is atomic at the server; a caller is suspended at   *)
(* each of them, so the steps of concurrent callers interleave command by  *)
(* command.                                                                *)
(***************************************************************************)
\* Wallet addresses as callers write them, in lower and in mixed case.
Addrs == {"0xaa", "0xAA", "0xbb", "0xcc"}

\* String.prototype.toLowerCase on the addresses above.
ToLowerCase(w) == IF w = "0xAA" THEN "0xaa" ELSE w

Keys == {ToLowerCase(w) : w \in Addrs}

\* Two command handlers that may be suspended in the store at the same time.
Callers == {"c1", "c2"}

\* The display name each handler passes.
NameOf(c) == IF c = "c1" THEN "alice" ELSE "bob"

NodeIds == 1..MaxCalls

NoNode == [id |-> 0, name |-> "", wallet |-> "", refer |-> "",
           refer_id |-> <<>>, lv |-> 0]

\* left: the wallets clearAllWallets has still to delete.
NoCall == [pc |-> "idle", wallet |-> "", name |-> "", refer |-> "",
           info |-> NoNode, left |-> {}]

\* redis.exists(nodeKey(wallet)) === 1
ExistsWallet(wallet) ==
    /\ ToLowerCase(wallet) \in Keys
    /\ nodes[ToLowerCase(wallet)] # NoNode

StoreConstructed ==
    /\ nodes = [k \in Keys |-> NoNode]
    /\ allWallets = {}
    /\ nextId = 1
    /\ calls = [c \in Callers |-> NoCall]
    /\ callsStarted = 0
    /\ everStored = [k \in Keys |-> {}]
    /\ parentRead = [i \in NodeIds |-> NoNode]

InitStore == StoreConstructed

\* A caller invokes addNodeLite(wallet, name, refer): both addresses are
\* lower-cased, then existsWallet(refer) is awaited.
AddNodeLiteCall(c) ==
    /\ calls[c].pc \in {"idle", "done", "failed"}
    /\ callsStarted < MaxCalls
    /\ \E w \in Addrs, r \in Addrs \cup {""} :
          calls' = [calls EXCEPT ![c] =
                      [pc |-> "existsRef", wallet |-> ToLowerCase(w),
                       name |-> NameOf(c), refer |-> ToLowerCase(r),
                       info |-> NoNode, left |-> {}]]
    /\ callsStarted' = callsStarted + 1
    /\ UNCHANGED <<nodes, allWallets, nextId, everStored, parentRead>>
    /\ UNCHANGED outsideStore

\* Mutant: the child gets the level of its parent.
ChildLevelSameAsParent(parent) == parent.lv

\* lv = parentLv + 1.  The level is written as decimal text and read back
\* with parseInt, which returns the number written for the positive
\* integers the store holds.
ChildLevel(parent) == parent.lv + 1

\* referIdChain = parentReferId ; parent.id (the ids of the ancestors, root
\* first, joined by ";"), or parent.id alone when the parent has no chain.
ChildChain(parent) == Append(parent.refer_id, parent.id)

\* const info = { id, name, wallet, refer, refer_id, lv } with a fresh id.
NewInfo(call, lv, chain) ==
    [id |-> nextId, name |-> call.name, wallet |-> call.wallet,
     refer |-> call.refer, refer_id |-> chain, lv |-> lv]

\* existsWallet(refer) answers.  Without a stored referrer the node becomes
\* a top-level one and addNode is entered (its exists is awaited); with one,
\* the parent's hash is requested.
ExistsRefAnswers(c) ==
    /\ calls[c].pc = "existsRef"
    /\ IF ExistsWallet(calls[c].refer)
       THEN /\ calls' = [calls EXCEPT ![c].pc = "hGetAll"]
            /\ UNCHANGED nextId
       ELSE /\ calls' = [calls EXCEPT ![c].pc = "exists",
                                      ![c].info = NewInfo(calls[c], 1, <<>>)]
            /\ nextId' = nextId + 1
    /\ UNCHANGED <<nodes, allWallets, callsStarted, everStored, parentRead>>
    /\ UNCHANGED outsideStore

\* hGetAll(parentKey) answers: level and ancestor chain are derived from the
\* parent, the id is generated and addNode is entered.
HGetAllAnswers(c) ==
    /\ calls[c].pc = "hGetAll"
    /\ LET parent == nodes[calls[c].refer]
       IN /\ calls' = [calls EXCEPT
                 ![c].pc = "exists",
                 ![c].info = NewInfo(calls[c], ChildLevel(parent),
                                     ChildChain(parent))]
          /\ parentRead' = [parentRead EXCEPT ![nextId] = parent]
    /\ nextId' = nextId + 1
    /\ UNCHANGED <<nodes, allWallets, callsStarted, everStored>>
    /\ UNCHANGED outsideStore

\* addNode: exists(key) answers; an existing key makes the call throw
\* "Node already exists", otherwise hSet is issued.
ExistsAnswers(c) ==
    /\ calls[c].pc = "exists"
    /\ calls' = [calls EXCEPT ![c] =
                    IF ExistsWallet(calls[c].wallet)
                    THEN [NoCall EXCEPT !.pc = "failed"]
                    ELSE [@ EXCEPT !.pc = "hSet"]]
    /\ UNCHANGED <<nodes, allWallets, nextId, callsStarted, everStored,
                   parentRead>>
    /\ UNCHANGED outsideStore

\* addNode: hSet(key, hash) is executed; sAdd is issued next.
HSetDone(c) ==
    /\ calls[c].pc = "hSet"
    /\ nodes' = [nodes EXCEPT ![calls[c].wallet] = calls[c].info]
    /\ everStored' = [everStored EXCEPT ![calls[c].wallet] =
                         @ \cup {calls[c].info}]
    /\ calls' = [calls EXCEPT ![c].pc = "sAdd"]
    /\ UNCHANGED <<allWallets, nextId, callsStarted, parentRead>>
    /\ UNCHANGED outsideStore

\* addNode: sAdd(allWalletsKey, wallet) is executed and the call returns.
SAddDone(c) ==
    /\ calls[c].pc = "sAdd"
    /\ allWallets' = allWallets \cup {calls[c].wallet}
    /\ calls' = [calls EXCEPT ![c] = [NoCall EXCEPT !.pc = "done"]]
    /\ UNCHANGED <<nodes, nextId, callsStarted, everStored, parentRead>>
    /\ UNCHANGED outsideStore

\* A caller invokes removeNode(wallet); del(key) is issued for the
\* lower-cased wallet.
RemoveNodeCall(c) ==
    /\ calls[c].pc \in {"idle", "done", "failed"}
    /\ callsStarted < MaxCalls
    /\ \E w \in Addrs :
          calls' = [calls EXCEPT ![c] = [NoCall EXCEPT !.pc = "del",
                                                       !.wallet = w]]
    /\ callsStarted' = callsStarted + 1
    /\ UNCHANGED <<nodes, allWallets, nextId, everStored, parentRead>>
    /\ UNCHANGED outsideStore

\* removeNode: del(key) is executed; sRem of the wallet as passed is next.
DelDone(c) ==
    /\ calls[c].pc = "del"
    /\ nodes' = [nodes EXCEPT ![ToLowerCase(calls[c].wallet)] = NoNode]
    /\ calls' = [calls EXCEPT ![c].pc = "sRemOriginal"]
    /\ UNCHANGED <<allWallets, nextId, callsStarted, everStored, parentRead>>
    /\ UNCHANGED outsideStore

\* removeNode: sRem(allWalletsKey, originalWallet) is executed.
SRemOriginalDone(c) ==
    /\ calls[c].pc = "sRemOriginal"
    /\ allWallets' = allWallets \ {calls[c].wallet}
    /\ calls' = [calls EXCEPT ![c].pc = "sRem"]
    /\ UNCHANGED <<nodes, nextId, callsStarted, everStored, parentRead>>
    /\ UNCHANGED outsideStore

\* removeNode: sRem(allWalletsKey, wallet) is executed and the call returns.
SRemDone(c) ==
    /\ calls[c].pc = "sRem"
    /\ allWallets' = allWallets \ {ToLowerCase(calls[c].wallet)}
    /\ calls' = [calls EXCEPT ![c] = [NoCall EXCEPT !.pc = "done"]]
    /\ UNCHANGED <<nodes, nextId, callsStarted, everStored, parentRead>>
    /\ UNCHANGED outsideStore

\* A caller invokes clearAllWallets(); getAllWallets is awaited.
ClearAllWalletsCall(c) ==
    /\ calls[c].pc \in {"idle", "done", "failed"}
    /\ callsStarted < MaxCalls
    /\ calls' = [calls EXCEPT ![c] = [NoCall EXCEPT !.pc = "sMembers"]]
    /\ callsStarted' = callsStarted + 1
    /\ UNCHANGED <<nodes, allWallets, nextId, everStored, parentRead>>
    /\ UNCHANGED outsideStore

\* getAllWallets: sMembers(allWalletsKey) answers with the members of the
\* set at that moment.
GetAllWallets == allWallets

\* clearAllWallets: the list of wallets arrives and the loop begins.
SMembersAnswers(c) ==
    /\ calls[c].pc = "sMembers"
    /\ calls' = [calls EXCEPT ![c].pc = "clearing", ![c].left = GetAllWallets]
    /\ UNCHANGED <<nodes, allWallets, nextId, callsStarted, everStored,
                   parentRead>>
    /\ UNCHANGED outsideStore

\* clearAllWallets, one turn of the loop: del(nodeKey(wallet)) is executed
\* for the next wallet of the list, whose order is the store's.
ClearDelDone(c) ==
    /\ calls[c].pc = "clearing"
    /\ \E w \in calls[c].left :
          /\ nodes' = [nodes EXCEPT ![ToLowerCase(w)] = NoNode]
          /\ calls' = [calls EXCEPT ![c].left = @ \ {w}]
    /\ UNCHANGED <<allWallets, nextId, callsStarted, everStored, parentRead>>
    /\ UNCHANGED outsideStore

\* clearAllWallets after the loop: del(allWalletsKey) is executed and the
\* call returns.
ClearSetDone(c) ==
    /\ calls[c].pc = "clearing"
    /\ calls[c].left = {}
    /\ allWallets' = {}
    /\ calls' = [calls EXCEPT ![c] = [NoCall EXCEPT !.pc = "done"]]
    /\ UNCHANGED <<nodes, nextId, callsStarted, everStored, parentRead>>
    /\ UNCHANGED outsideStore

\* Inserts, removals and clearAllWallets of concurrent callers.
NextWallets ==
    \/ \E c \in Callers : AddNodeLiteCall(c)
    \/ \E c \in Callers : ExistsRefAnswers(c)
    \/ \E c \in Callers : HGetAllAnswers(c)
    \/ \E c \in Callers : ExistsAnswers(c)
    \/ \E c \in Callers : HSetDone(c)
    \/ \E c \in Callers : SAddDone(c)
    \/ \E c \in Callers : RemoveNodeCall(c)
    \/ \E c \in Callers : DelDone(c)
    \/ \E c \in Callers : SRemOriginalDone(c)
    \/ \E c \in Callers : SRemDone(c)
    \/ \E c \in Callers : ClearAllWalletsCall(c)
    \/ \E c \in Callers : SMembersAnswers(c)
    \/ \E c \in Callers : ClearDelDone(c)
    \/ \E c \in Callers : ClearSetDone(c)

NextStore ==
    \/ \E c \in Callers : AddNodeLiteCall(c)
    \/ \E c \in Callers : ExistsRefAnswers(c)
    \/ \E c \in Callers : HGetAllAnswers(c)
    \/ \E c \in Callers : ExistsAnswers(c)
    \/ \E c \in Callers : HSetDone(c)
    \/ \E c \in Callers : SAddDone(c)

-----------------------------------------------------------------------------
(***************************************************************************)
(* WalletMonitor: the tracked set, the manual addWallet command and the    *)
(* detection of new wallets in processed transactions.                     *)
(*                                                                         *)
(* processTransactions handles one transaction at a time and is suspended  *)
(* at every awaited call; a manual command runs in between.  New-wallet    *)
(* detection is switched on (the configuration's default).                 *)
(***************************************************************************)
minValue == 0            \* config.minValue, in wei

UsdtMinValue == 1000     \* config.baseToken: the minimum for USDT

\* Token contracts: one with a configured minimum, one without.
Tokens == {"usdt", "cake"}

\* config.baseTokenMap.get(tokenAddress)?.minValue; 0 stands for undefined.
TokenMinValue(token) == IF token = "usdt" THEN UsdtMinValue ELSE 0

\* Addresses with deployed code.
Contracts == {"0xcc"}

\* Amounts as text.  ZeroText is the string '0'; formatEther yields decimal
\* text that always carries a fractional part ("2.0").
ZeroText == [integer |-> TRUE, num |-> 0]

FormatEther(value) == [integer |-> FALSE, num |-> value]

\* text >= bigint converts the text to a BigInt; text with a fractional
\* part does not convert and the comparison is then false.
TextGeBigInt(text, n) == text.integer /\ text.num >= n

TxValues == {0, 2}

TokenAmounts == {500, 1000}

Changes == [from : {"0xaa"}, to : {"0xbb", "0xcc"}, tokenAddress : Tokens,
            formattedValue : TokenAmounts]

RawTxs == [from : {"0xaa", "0xbb"}, to : {"0xbb", "0xcc"}, value : TxValues,
           logs : UNION {[1..n -> Changes] : n \in 0..MaxChanges}]

\* TransactionProcessor: analyzeBNBChange and analyzeERC20Events.
ParseTransaction(raw) ==
    [from |-> raw.from, to |-> raw.to,
     bnbChange |-> IF raw.value > 0
                   THEN [from |-> FormatEther(0 - raw.value),
                         to |-> FormatEther(raw.value)]
                   ELSE [from |-> ZeroText, to |-> ZeroText],
     erc20Changes |-> raw.logs]

NoTx == [from |-> "", to |-> "",
         bnbChange |-> [from |-> ZeroText, to |-> ZeroText],
         erc20Changes |-> <<>>]

NoDet == [pc |-> "idle", tx |-> NoTx, idx |-> 0, wallet |-> "",
          fromAddress |-> "", fromName |-> ""]

NoManual == [pc |-> "idle", wallet |-> "", name |-> ""]

\* tx.bnbChange && (tx.bnbChange.from !== '0' || tx.bnbChange.to !== '0')
HasBNBTransfer(tx) ==
    tx.bnbChange.from # ZeroText \/ tx.bnbChange.to # ZeroText

NoAnalysis == [hasActivity |-> FALSE, walletName |-> "", walletAddress |-> "",
               received |-> <<>>, sent |-> <<>>]

\* analyzeTransaction, the native part: the entry pushed to sent.
BnbSent(tx, monitored) ==
    IF /\ HasBNBTransfer(tx)
       /\ ToLowerCase(tx.from) \in monitored
       /\ tx.bnbChange.from # ZeroText
    THEN <<[type |-> "bnb", formattedValue |-> tx.bnbChange.from,
            from |-> ToLowerCase(tx.from), to |-> ToLowerCase(tx.to)]>>
    ELSE <<>>

\* The entry pushed for a token change.
TokenEntry(change) ==
    [type |-> "token", tokenAddress |-> change.tokenAddress,
     formattedValue |-> change.formattedValue,
     from |-> ToLowerCase(change.from), to |-> ToLowerCase(change.to)]

\* analyzeTransaction, the token part: the loop over tx.erc20Changes from
\* index i on pushes to received the changes that go to the sender of the
\* transaction and to sent those that come from it.
RECURSIVE TokenEntries(_, _, _)
TokenEntries(tx, i, acc) ==
    IF i > Len(tx.erc20Changes) THEN acc
    ELSE LET change == tx.erc20Changes[i]
             toMe == ToLowerCase(change.to) = ToLowerCase(tx.from)
             fromMe == ToLowerCase(change.from) = ToLowerCase(tx.from)
         IN TokenEntries(tx, i + 1,
                [received |-> IF toMe
                              THEN Append(acc.received, TokenEntry(change))
                              ELSE acc.received,
                 sent |-> IF fromMe
                          THEN Append(acc.sent, TokenEntry(change))
                          ELSE acc.sent])

AnalyzeAnySender(tx, monitored, names) ==
    LET everyone == monitored \cup {ToLowerCase(tx.from)}
        entries == TokenEntries(tx, 1, [received |-> <<>>,
                                        sent |-> BnbSent(tx, everyone)])
    IN [hasActivity |-> HasBNBTransfer(tx) \/ Len(tx.erc20Changes) > 0,
        walletName |-> "Unknown", walletAddress |-> tx.from,
        received |-> entries.received, sent |-> entries.sent]

\* MessageTemplates.analyzeTransaction(tx, monitoredAddresses, addressNames):
\* only the sender of the transaction is looked up.
analyzeTransaction(tx, monitored, names) ==
    LET tracked == ToLowerCase(tx.from) \in monitored
        bnbActivity == HasBNBTransfer(tx) /\ tracked
        tokenActivity == Len(tx.erc20Changes) > 0 /\ tracked
        start == [received |-> <<>>, sent |-> BnbSent(tx, monitored)]
        entries == IF tokenActivity THEN TokenEntries(tx, 1, start)
                   ELSE start
    IN [hasActivity |-> bnbActivity \/ tokenActivity,
        walletName |-> IF names[ToLowerCase(tx.from)] # ""
                       THEN names[ToLowerCase(tx.from)] ELSE "Unknown",
        walletAddress |-> tx.from,
        received |-> entries.received, sent |-> entries.sent]

\* processTransactions: analysis.hasActivity for the transaction.
HasActivity(tx) ==
    analyzeTransaction(tx, monitoredAddresses, addressNames).hasActivity

\* checkNewWalletFromBNB: the recipient is a candidate.
BnbCandidate(tx) ==
    /\ ToLowerCase(tx.to) \notin monitoredAddresses
    /\ HasBNBTransfer(tx)
    /\ Len(tx.erc20Changes) = 0
    /\ TextGeBigInt(tx.bnbChange.to, minValue)

HasOnlyOneTokenType(erc20Changes) ==
    /\ Len(erc20Changes) > 0
    /\ Cardinality({erc20Changes[i].tokenAddress :
                       i \in 1..Len(erc20Changes)}) = 1

\* checkNewWalletFromERC20: the conditions under which the changes are
\* looked at.
TokenPathOpen(tx) ==
    /\ Len(tx.erc20Changes) > 0
    /\ ~HasBNBTransfer(tx)
    /\ HasOnlyOneTokenType(tx.erc20Changes)

\* isMinValue && monitoredAddresses.has(from) && !monitoredAddresses.has(to)
ChangeEligible(change) ==
    /\ TokenMinValue(change.tokenAddress) # 0
    /\ change.formattedValue >= TokenMinValue(change.tokenAddress)
    /\ ToLowerCase(change.from) \in monitoredAddresses
    /\ ToLowerCase(change.to) \notin monitoredAddresses

\* The loop over tx.erc20Changes from index i on: it runs up to the first
\* eligible change, whose isEOA is awaited, or to the end.
ScanChanges(tx, i) ==
    LET eligible == {j \in i..Len(tx.erc20Changes) :
                        ChangeEligible(tx.erc20Changes[j])}
    IN IF eligible = {}
       THEN NoDet
       ELSE LET j == CHOOSE j \in eligible : \A k \in eligible : j <= k
            IN [pc |-> "isEOA", tx |-> tx, idx |-> j,
                wallet |-> ToLowerCase(tx.erc20Changes[j].to),
                fromAddress |-> ToLowerCase(tx.erc20Changes[j].from),
                fromName |-> ""]

CheckNewWalletFromERC20(tx) ==
    IF TokenPathOpen(tx) THEN ScanChanges(tx, 1) ELSE NoDet

\* checkNewWallet: checkNewWalletFromBNB, then checkNewWalletFromERC20.
CheckNewWallet(tx) ==
    IF BnbCandidate(tx)
    THEN [pc |-> "isEOA", tx |-> tx, idx |-> 0,
          wallet |-> ToLowerCase(tx.to),
          fromAddress |-> ToLowerCase(tx.from), fromName |-> ""]
    ELSE CheckNewWalletFromERC20(tx)

\* Where processing goes on after a candidate has been dealt with: idx 0 is
\* the candidate of checkNewWalletFromBNB.
Continue(d) ==
    IF d.idx = 0 THEN CheckNewWalletFromERC20(d.tx)
    ELSE ScanChanges(d.tx, d.idx + 1)

DetectRunConstructed ==
    /\ addressNames = [k \in Keys |-> ""]
    /\ sentNotifications = 0
    /\ newWalletsAdded = 0
    /\ det = NoDet
    /\ manual = NoManual
    /\ txCount = 0
    /\ manualCount = 0
    /\ restarts = 0
    /\ announced = [k \in Keys |-> 0]
    /\ enrollments = {}
    /\ erroredWallets = {}
    /\ flaggedWallets = {}

DetectRestConstructed == monitoredAddresses = {} /\ DetectRunConstructed

DetectConstructed == DetectRestConstructed /\ watchedAddresses = {}

\* processTransactions takes the next transaction: without activity it is
\* done; with activity the transaction notification is queued and awaited.
AnalyzeTransaction ==
    /\ det.pc = "idle"
    /\ txCount < MaxTxs
    /\ txCount' = txCount + 1
    /\ \E raw \in RawTxs :
          LET tx == ParseTransaction(raw)
          IN IF HasActivity(tx)
             THEN /\ messageQueue' = Append(messageQueue,
                         [kind |-> "tokenTransfer", wallet |-> tx.from,
                          refer |-> ""])
                  /\ det' = [NoDet EXCEPT !.pc = "notify", !.tx = tx]
             ELSE UNCHANGED <<messageQueue, det>>
    /\ UNCHANGED <<monitoredAddresses, addressNames, watchedAddresses,
                   sentNotifications, newWalletsAdded, manual, manualCount,
                   restarts, announced, enrollments, erroredWallets,
                   flaggedWallets>>
    /\ UNCHANGED <<storeVars, outsideDetect>>

\* sendTransactionNotification returns; checkNewWallet starts with
\* checkNewWalletFromBNB.
TransactionNotified ==
    /\ det.pc = "notify"
    /\ sentNotifications' = sentNotifications + 1
    /\ det' = CheckNewWallet(det.tx)
    /\ UNCHANGED <<messageQueue, monitoredAddresses, addressNames,
                   watchedAddresses, newWalletsAdded, manual, txCount,
                   manualCount, restarts, announced, enrollments,
                   erroredWallets,
                   flaggedWallets>>
    /\ UNCHANGED <<storeVars, outsideDetect>>

\* provider.getCode(address): '0x' for an address without deployed code,
\* the code otherwise; the call may fail.
GetCodeAnswers(address) ==
    {IF address \in Contracts THEN "0x6080" ELSE "0x", "throws"}

IsEOAWhateverTheCode(code) == code # "throws"

\* isEOA: code === '0x'; a failed call is caught and gives false.
IsEOA(code) == code = "0x"

\* isEOA answers: true for an address without code; a failing provider
\* call makes it false.  An EOA goes on to addNewWallet, where existsWallet
\* is awaited.
IsEOAAnswers ==
    /\ det.pc = "isEOA"
    /\ \E code \in GetCodeAnswers(det.wallet) :
       LET isEOA == IsEOA(code) IN
          det' = IF isEOA THEN [det EXCEPT !.pc = "existsWallet"]
                 ELSE Continue(det)
    /\ UNCHANGED <<messageQueue, monitoredAddresses, addressNames,
                   watchedAddresses, sentNotifications, newWalletsAdded,
                   manual, txCount, manualCount, restarts, announced,
                   enrollments, erroredWallets,
                   flaggedWallets>>
    /\ UNCHANGED <<storeVars, outsideDetect>>

\* addNewWallet: existsWallet answers.  A stored address is skipped;
\* otherwise the inducer's name is looked up and the exchange lookup
\* awaited.
ExistsWalletAnswers ==
    /\ det.pc = "existsWallet"
    /\ det' = IF ExistsWallet(det.wallet)
              THEN Continue(det)
              ELSE [det EXCEPT !.pc = "cex",
                               !.fromName =
                                   IF addressNames[det.fromAddress] # ""
                                   THEN addressNames[det.fromAddress]
                                   ELSE "Unknown"]
    /\ UNCHANGED <<messageQueue, monitoredAddresses, addressNames,
                   watchedAddresses, sentNotifications, newWalletsAdded,
                   manual, txCount, manualCount, restarts, announced,
                   enrollments, erroredWallets,
                   flaggedWallets>>
    /\ UNCHANGED <<storeVars, outsideDetect>>

\* getCexDict: what the history service's answer holds as cex_dict.  "none"
\* stands for a failed request (data stays null) or an answer without the
\* field; reading it throws.
CexDicts == {"none", "empty", "listed"}

GetIsCexDictNever(cexDict) == FALSE

\* getIsCexDict: Object.keys(cexDict).length !== 0
GetIsCexDict(cexDict) == cexDict = "listed"

\* addNewWallet: getIsCexDict answers.  A flagged address is skipped; a
\* failed lookup throws into the catch, which logs the error; otherwise the
\* wallet is put into the in-memory sets (the store is not written) and the
\* new-wallet notification is queued and awaited.
CexAnswers ==
    /\ det.pc = "cex"
    /\ \E cexDict \in CexDicts :
          /\ flaggedWallets' = IF cexDict = "listed"
                               THEN flaggedWallets \cup {det.wallet}
                               ELSE flaggedWallets
          /\ CASE cexDict = "none" ->
                 /\ erroredWallets' = erroredWallets \cup {det.wallet}
                 /\ det' = Continue(det)
                 /\ UNCHANGED <<messageQueue, monitoredAddresses,
                                addressNames, watchedAddresses, announced,
                                enrollments>>
            [] cexDict # "none" /\ GetIsCexDict(cexDict) ->
                 /\ det' = Continue(det)
                 /\ UNCHANGED <<messageQueue, monitoredAddresses,
                                addressNames, watchedAddresses, announced,
                                enrollments, erroredWallets>>
            [] OTHER ->
                 /\ monitoredAddresses' = monitoredAddresses \cup {det.wallet}
                 /\ addressNames' =
                       [addressNames EXCEPT ![det.wallet] = det.fromName]
                 /\ watchedAddresses' =
                       watchedAddresses \cup {ToLowerCase(det.wallet)}
                 /\ messageQueue' = Append(messageQueue,
                       [kind |-> "newWallet", wallet |-> det.wallet,
                        refer |-> det.fromAddress])
                 /\ announced' = [announced EXCEPT ![det.wallet] = @ + 1]
                 /\ enrollments' = enrollments \cup
                       {[wallet |-> det.wallet, refer |-> det.fromAddress]}
                 /\ det' = [det EXCEPT !.pc = "announce"]
                 /\ UNCHANGED erroredWallets
    /\ UNCHANGED <<sentNotifications, newWalletsAdded, manual, txCount,
                   manualCount, restarts>>
    /\ UNCHANGED <<storeVars, outsideDetect>>

\* addNewWallet: sendHtml returns, both counters are incremented.
EnrollmentAnnounced ==
    /\ det.pc = "announce"
    /\ sentNotifications' = sentNotifications + 1
    /\ newWalletsAdded' = newWalletsAdded + 1
    /\ det' = Continue(det)
    /\ UNCHANGED <<messageQueue, monitoredAddresses, addressNames,
                   watchedAddresses, manual, txCount, manualCount, restarts,
                   announced, enrollments, erroredWallets,
                   flaggedWallets>>
    /\ UNCHANGED <<storeVars, outsideDetect>>

\* Addresses as typed into the manual command.
ManualAddrs == {"0xaa", "0xAA", "0xbb"}

\* addWallet(wallet, name) is invoked: existsWallet is awaited.
AddWallet ==
    /\ manual.pc = "idle"
    /\ manualCount < MaxManual
    /\ manualCount' = manualCount + 1
    /\ \E w \in ManualAddrs :
          manual' = [pc |-> "existsWallet", wallet |-> w,
                     name |-> NameOf("c1")]
    /\ UNCHANGED <<messageQueue, monitoredAddresses, addressNames,
                   watchedAddresses, sentNotifications, newWalletsAdded, det,
                   txCount, restarts, announced, enrollments, erroredWallets,
                   flaggedWallets>>
    /\ UNCHANGED <<storeVars, outsideDetect>>

\* addWallet: existsWallet answers.  A stored address is refused; otherwise
\* addNodeLite(wallet, name, '') is entered.
AddWalletExistsAnswers ==
    /\ manual.pc = "existsWallet"
    /\ IF ExistsWallet(manual.wallet)
       THEN /\ manual' = NoManual
            /\ UNCHANGED calls
       ELSE /\ manual' = [manual EXCEPT !.pc = "addNodeLite"]
            /\ calls' = [calls EXCEPT !["c1"] =
                           [pc |-> "existsRef",
                            wallet |-> ToLowerCase(manual.wallet),
                            name |-> manual.name, refer |-> "",
                            info |-> NoNode, left |-> {}]]
    /\ UNCHANGED <<nodes, allWallets, nextId, callsStarted, everStored,
                   parentRead>>
    /\ UNCHANGED <<messageQueue, monitoredAddresses, addressNames,
                   watchedAddresses, sentNotifications, newWalletsAdded, det,
                   txCount, manualCount, restarts, announced, enrollments,
                   erroredWallets,
                   flaggedWallets>>
    /\ UNCHANGED outsideDetect

\* addWallet: addNodeLite has returned or thrown.  On return the address,
\* as typed, is put into the in-memory sets.
AddWalletReturns ==
    /\ manual.pc = "addNodeLite"
    /\ calls["c1"].pc \in {"done", "failed"}
    /\ IF calls["c1"].pc = "done"
       THEN /\ monitoredAddresses' = monitoredAddresses \cup {manual.wallet}
            /\ addressNames' = [addressNames EXCEPT
                                  ![ToLowerCase(manual.wallet)] = manual.name]
            /\ watchedAddresses' =
                  watchedAddresses \cup {ToLowerCase(manual.wallet)}
       ELSE UNCHANGED <<monitoredAddresses, addressNames, watchedAddresses>>
    /\ manual' = NoManual
    /\ calls' = [calls EXCEPT !["c1"] = NoCall]
    /\ UNCHANGED <<nodes, allWallets, nextId, callsStarted, everStored,
                   parentRead>>
    /\ UNCHANGED <<messageQueue, sentNotifications, newWalletsAdded, det,
                   txCount, manualCount, restarts, announced, enrollments,
                   erroredWallets,
                   flaggedWallets>>
    /\ UNCHANGED outsideDetect

\* The process is started anew: the constructor empties the in-memory
\* state and start() loads the tracked set and the names from the store.
Restart ==
    /\ det.pc = "idle"
    /\ manual.pc = "idle"
    /\ restarts < MaxRestarts
    /\ restarts' = restarts + 1
    /\ monitoredAddresses' = allWallets
    /\ addressNames' = [k \in Keys |->
                           IF k \in allWallets THEN nodes[k].name ELSE ""]
    /\ watchedAddresses' = {ToLowerCase(w) : w \in allWallets}
    /\ sentNotifications' = 0
    /\ newWalletsAdded' = 0
    /\ messageQueue' = <<>>
    /\ UNCHANGED <<det, manual, txCount, manualCount, announced, enrollments,
                   erroredWallets,
                   flaggedWallets>>
    /\ UNCHANGED <<storeVars, outsideDetect>>

\* removeWallet(wallet) is invoked: existsWallet is awaited.
RemoveWallet ==
    /\ manual.pc = "idle"
    /\ manualCount < MaxManual
    /\ manualCount' = manualCount + 1
    /\ \E w \in ManualAddrs :
          manual' = [pc |-> "existsBeforeRemove", wallet |-> w, name |-> ""]
    /\ UNCHANGED <<messageQueue, monitoredAddresses, addressNames,
                   watchedAddresses, sentNotifications, newWalletsAdded, det,
                   txCount, restarts, announced, enrollments, erroredWallets,
                   flaggedWallets>>
    /\ UNCHANGED <<storeVars, outsideDetect>>

\* removeWallet: existsWallet answers.  An address that is not stored is
\* refused; otherwise the node is read and removeNode(wallet) is entered.
RemoveWalletExistsAnswers ==
    /\ manual.pc = "existsBeforeRemove"
    /\ IF ExistsWallet(manual.wallet)
       THEN /\ manual' = [manual EXCEPT !.pc = "removeNode"]
            /\ calls' = [calls EXCEPT !["c1"] =
                           [NoCall EXCEPT !.pc = "del",
                                          !.wallet = manual.wallet]]
       ELSE /\ manual' = NoManual
            /\ UNCHANGED calls
    /\ UNCHANGED <<nodes, allWallets, nextId, callsStarted, everStored,
                   parentRead>>
    /\ UNCHANGED <<messageQueue, monitoredAddresses, addressNames,
                   watchedAddresses, sentNotifications, newWalletsAdded, det,
                   txCount, manualCount, restarts, announced, enrollments,
                   erroredWallets, flaggedWallets>>
    /\ UNCHANGED outsideDetect

\* removeWallet: removeNode has returned.  The address, as typed, is
\* deleted from the tracked Set; the names and the scanner's Set are keyed
\* in lower case.
RemoveWalletReturns ==
    /\ manual.pc = "removeNode"
    /\ calls["c1"].pc = "done"
    /\ monitoredAddresses' = monitoredAddresses \ {manual.wallet}
    /\ addressNames' = [addressNames EXCEPT
                          ![ToLowerCase(manual.wallet)] = ""]
    /\ watchedAddresses' = watchedAddresses \ {ToLowerCase(manual.wallet)}
    /\ manual' = NoManual
    /\ calls' = [calls EXCEPT !["c1"] = NoCall]
    /\ UNCHANGED <<nodes, allWallets, nextId, callsStarted, everStored,
                   parentRead>>
    /\ UNCHANGED <<messageQueue, sentNotifications, newWalletsAdded, det,
                   txCount, manualCount, restarts, announced, enrollments,
                   erroredWallets, flaggedWallets>>
    /\ UNCHANGED outsideDetect

\* Detection together with the manual commands addWallet and removeWallet.
NextCommands ==
    \/ AnalyzeTransaction
    \/ TransactionNotified
    \/ IsEOAAnswers
    \/ ExistsWalletAnswers
    \/ CexAnswers
    \/ EnrollmentAnnounced
    \/ AddWallet
    \/ AddWalletExistsAnswers
    \/ \E c \in Callers : ExistsRefAnswers(c)
    \/ \E c \in Callers : ExistsAnswers(c)
    \/ \E c \in Callers : HSetDone(c)
    \/ \E c \in Callers : SAddDone(c)
    \/ AddWalletReturns
    \/ RemoveWallet
    \/ RemoveWalletExistsAnswers
    \/ \E c \in Callers : DelDone(c)
    \/ \E c \in Callers : SRemOriginalDone(c)
    \/ \E c \in Callers : SRemDone(c)
    \/ RemoveWalletReturns
    \/ Restart

NextDetect ==
    \/ AnalyzeTransaction
    \/ TransactionNotified
    \/ IsEOAAnswers
    \/ ExistsWalletAnswers
    \/ CexAnswers
    \/ EnrollmentAnnounced
    \/ AddWallet
    \/ AddWalletExistsAnswers
    \/ \E c \in Callers : ExistsRefAnswers(c)
    \/ \E c \in Callers : ExistsAnswers(c)
    \/ \E c \in Callers : HSetDone(c)
    \/ \E c \in Callers : SAddDone(c)
    \/ AddWalletReturns
    \/ Restart

\* ---- processTransactions followed on one transaction ----

\* Token changes of the transactions below: the parties in the letter case
\* the Transfer event is decoded to.
AnalyzerChanges == [from : {"0xaa", "0xbb"}, to : {"0xAA", "0xbb", "0xcc"},
                    tokenAddress : Tokens, formattedValue : {UsdtMinValue}]

\* Transactions as the provider returns them: 0xAA is a checksummed sender.
AnalyzerRawTxs == [from : {"0xAA", "0xbb"}, to : {"0xbb", "0xcc"},
                   value : TxValues,
                   logs : UNION {[1..n -> AnalyzerChanges] :
                                    n \in 0..MaxChanges}]

\* What the tracked Set can hold: entries loaded from the store are in
\* lower case, entries added by addWallet are as typed.
TrackedSets == {set \in SUBSET {"0xaa", "0xAA", "0xbb"} :
                   ~({"0xaa", "0xAA"} \subseteq set)}

AnalyzeConstructed ==
    /\ currentTx = NoTx
    /\ analysis = NoAnalysis
    /\ analyzePc = "idle"

\* processTransactions: analysis = analyzeTransaction(tx, ...).
Analyze ==
    /\ analyzePc = "taken"
    /\ analysis' = analyzeTransaction(currentTx, monitoredAddresses,
                                      addressNames)
    /\ analyzePc' = "analyzed"
    /\ UNCHANGED <<currentTx, messageQueue, detectVars, outsideAnalyze>>

\* processTransactions: if (analysis.hasActivity) the transaction
\* notification is queued and awaited; otherwise the transaction is done.
Notify ==
    /\ analyzePc = "analyzed"
    /\ analyzePc' = "done"
    /\ IF analysis.hasActivity
       THEN /\ messageQueue' = Append(messageQueue,
                   [kind |-> "tokenTransfer", wallet |-> currentTx.from,
                    refer |-> ""])
            /\ det' = [NoDet EXCEPT !.pc = "notify", !.tx = currentTx]
       ELSE UNCHANGED <<messageQueue, det>>
    /\ UNCHANGED <<currentTx, analysis, monitoredAddresses, addressNames,
                   watchedAddresses, sentNotifications, newWalletsAdded,
                   manual, txCount, manualCount, restarts, announced,
                   enrollments, erroredWallets, flaggedWallets>>
    /\ UNCHANGED outsideAnalyze

\* One transaction is followed up to the candidate checkNewWallet puts
\* forward.
NextAnalyze ==
    \/ Analyze
    \/ Notify
    \/ TransactionNotified

\* One transaction is followed to the end of addNewWallet.
NextEnroll ==
    \/ Analyze
    \/ Notify
    \/ TransactionNotified
    \/ IsEOAAnswers
    \/ ExistsWalletAnswers
    \/ CexAnswers
    \/ EnrollmentAnnounced


-----------------------------------------------------------------------------
(***************************************************************************)
(* TransactionProcessor: the classifier.                                   *)
(*                                                                         *)
(* processTransactions walks the transactions of a block with their        *)
(* receipts; parseTransaction classifies one transaction and returns null  *)
(* when anything in it throws; a null is left out of the results.          *)
(***************************************************************************)

\* transaction.data: no payload ('0x', or undefined which || turns into
\* '0x'), '0x0', the ERC-20 transfer call, any other call.
Payloads == {"0x", "0x0", "0xa9059cbb", "0x12345678"}

\* ERC20_METHODS: the selectors analyzeTransactionType refines.
ERC20Transfer == "0xa9059cbb"

\* transaction.to: "" stands for null (a contract creation).
Recipients == {"", "0xbb"}

\* The logs of a receipt.  "transfer" is a well-formed Transfer event,
\* "other" an event with another topics[0], "shortTopics" a Transfer event
\* without indexed parties, "badValue" a Transfer event whose data is '0x'
\* (the token id of an NFT is a topic, not data).
LogKinds == {"transfer", "other", "shortTopics", "badValue"}

ReceiptLogs == UNION {[1..n -> LogKinds] : n \in 0..MaxLogs}

\* receipts[i] || null: receipt is FALSE for a transaction whose receipt
\* the provider did not return.
ProcessorTxs ==
    {transaction \in [data : Payloads, value : TxValues, to : Recipients,
                      receipt : BOOLEAN, logs : ReceiptLogs] :
        ~transaction.receipt => transaction.logs = <<>>}

NoChange == [type |-> "null"]

\* parseTransferEvent: topics[1].slice on a missing topic and BigInt('0x')
\* throw inside the try, whose catch returns null.
parseTransferEvent(log) ==
    IF log = "transfer" THEN [type |-> "transfer"] ELSE NoChange

\* analyzeERC20Events: the loop over receipt.logs from index i on pushes
\* the change of every Transfer event that parseTransferEvent decoded.
RECURSIVE analyzeERC20Events(_, _, _)
analyzeERC20Events(logs, i, acc) ==
    IF i > Len(logs) THEN acc
    ELSE IF logs[i] = "other" THEN analyzeERC20Events(logs, i + 1, acc)
    ELSE LET change == parseTransferEvent(logs[i])
         IN analyzeERC20Events(logs, i + 1,
                IF change # NoChange THEN Append(acc, change) ELSE acc)

\* analyzeBNBChange: a positive value is charged to the sender and, when
\* the transaction has a recipient, credited to it.
analyzeBNBChange(transaction) ==
    IF transaction.value > 0
    THEN [from |-> FormatEther(0 - transaction.value),
          to |-> IF transaction.to # ""
                 THEN FormatEther(transaction.value) ELSE ZeroText]
    ELSE [from |-> ZeroText, to |-> ZeroText]

\* analyzeBNBChange followed by analyzeTransactionType: the
\* transactionType the result ends with.
analyzeTransactionType(transaction) ==
    IF transaction.data \in {"0x", "0x0"}
    THEN IF transaction.value > 0 THEN "bnb_transfer" ELSE "contract_call"
    ELSE IF transaction.data = ERC20Transfer THEN "erc20_transfer"
    ELSE "contract_call"

\* parseTransaction, for a transaction whose fields the provider decoded:
\* nothing in it throws, so the result is never null.
parseTransaction(hash, transaction) ==
    [hash |-> hash,
     to |-> transaction.to,
     value |-> transaction.value,
     inputData |-> transaction.data,
     transactionType |-> analyzeTransactionType(transaction),
     bnbChange |-> analyzeBNBChange(transaction),
     erc20Changes |-> IF transaction.receipt
                      THEN analyzeERC20Events(transaction.logs, 1, <<>>)
                      ELSE <<>>]

ParseConstructed ==
    /\ transactionsSeen = <<>>
    /\ parsedResults = <<>>

\* processTransactions, one turn of the loop: the next transaction of the
\* block is parsed and its result pushed.
ParseNext ==
    /\ Len(transactionsSeen) < MaxBlockTxs
    /\ \E transaction \in ProcessorTxs :
          /\ transactionsSeen' = Append(transactionsSeen, transaction)
          /\ parsedResults' = Append(parsedResults,
                 parseTransaction(Len(transactionsSeen) + 1, transaction))
    /\ UNCHANGED outsideParse

NextParse ==
    \/ ParseNext


-----------------------------------------------------------------------------
(***************************************************************************)
(* BlockScanner: range scans.                                              *)
(*                                                                         *)
(* scanBlockRange walks the range block by block; scanBlockRangeParallel   *)
(* starts processBlock for up to ConcurrencyLimit blocks at once, awaits   *)
(* them with Promise.allSettled and then starts the next wave.  The        *)
(* promises of a wave settle in any order.                                 *)
(***************************************************************************)
ConcurrencyLimit == 10

FirstBlock == 1

ScanBlocks == FirstBlock..MaxRangeLen

\* The ranges a scan is called with: FirstBlock..e, short ones and a long one.
RangeEnds == {e \in ScanBlocks : e <= MaxShortRange \/ e = MaxRangeLen}

\* A scan's inputs: the chain it reads and the range FirstBlock..end.
ScanInputs ==
    {[chain |-> "sparse", end |-> e] : e \in RangeEnds}
        \cup {[chain |-> "busy", end |-> FirstBlock]}

ShortInputs ==
    {[chain |-> "sparse", end |-> e] : e \in FirstBlock..MaxShortRange}

\* maxValue: ethers.parseEther('10000'), in whole coins.
maxValue == 10000

\* The settings of MIN_VALUE.
MinValues == minValue..MaxMinValue

\* A chain with few transactions.  The provider writes addresses in mixed
\* case; "0xAA" is the mixed-case writing of "0xaa".
SparseBlock(b) ==
    CASE b = 1 -> <<[from |-> "0xAA", to |-> "0xcc", value |-> 1]>>
      [] b = 2 -> <<[from |-> "0xcc", to |-> "0xAA", value |-> 0],
                    [from |-> "0xcc", to |-> "0xcc", value |-> 1],
                    [from |-> "0xaa", to |-> "0xbb", value |-> maxValue]>>
      [] b = 3 -> <<[from |-> "0xbb", to |-> "0xcc", value |-> 1],
                    [from |-> "0xAA", to |-> "0xcc", value |-> maxValue + 1]>>
      [] b = ConcurrencyLimit + 1 ->
                  <<[from |-> "0xcc", to |-> "0xaa", value |-> 1]>>
      [] OTHER -> <<>>

\* A chain whose first block holds more transactions of a watched address
\* than the concurrency limit.
BusyBlock(b) ==
    IF b = FirstBlock
    THEN [i \in 1..(ConcurrencyLimit + 1) |->
             [from |-> "0xAA", to |-> "0xcc", value |-> 1]]
    ELSE <<>>

\* block.prefetchedTransactions
Block(b) == IF chainName = "busy" THEN BusyBlock(b) ELSE SparseBlock(b)

\* isTransactionRelevant: from and to are lower-cased and looked up.
IsTransactionRelevant(tx) ==
    \/ ToLowerCase(tx.from) \in watchedAddresses
    \/ ToLowerCase(tx.to) \in watchedAddresses

FilterTransactionIgnoringValue(tx) == IsTransactionRelevant(tx)

\* filterTransaction
FilterTransaction(tx) ==
    IF tx.value < scanMin \/ tx.value > maxValue
    THEN FALSE
    ELSE IsTransactionRelevant(tx)

\* A transaction of the chains is named by its block and its position in
\* the block, written as one number.
KeyBase == ConcurrencyLimit + 2

TxKey(b, i) == b * KeyBase + i

BlockOf(t) == t \div KeyBase

IndexOf(t) == t % KeyBase

\* transactions.filter(tx => this.filterTransaction(tx)): the positions kept.
FilteredIndexes(b) ==
    SelectSeq([i \in 1..Len(Block(b)) |-> i],
              LAMBDA i : FilterTransaction(Block(b)[i]))

FilteredTxs(b) ==
    LET kept == FilteredIndexes(b) IN
    [k \in 1..Len(kept) |-> TxKey(b, kept[k])]

FilteredCount(b) == Len(FilteredTxs(b))

\* Every transaction of the chains.
ScanTxs ==
    UNION {{TxKey(b, i) :
               i \in 1..Max(Len(SparseBlock(b)), Len(BusyBlock(b)))} :
              b \in ScanBlocks}

\* provider.getBlock answers with the block or fails.
BlockAnswers == {"block", "error"}

\* provider.getTransactionReceipt answers with the receipt, with null (the
\* transaction is not confirmed) or fails.
ReceiptAnswers == {"receipt", "null", "error"}

GetBlockTransactionsDespiteError(b, answer) == FilteredTxs(b)

\* getBlockTransactions, then the filter: [] when the request failed.
GetBlockTransactions(b, answer) ==
    IF answer = "error" THEN <<>> ELSE FilteredTxs(b)

\* getTransactionReceipt: a failed request is caught and gives null.
GetTransactionReceipt(answer) ==
    IF answer = "receipt" THEN "receipt" ELSE "null"

\* parseTransaction and formatOutput: a delta is produced with or without a
\* receipt; the token changes are read from the receipt's logs only.
Delta(tx, receipt) ==
    [block |-> BlockOf(tx), tx |-> IndexOf(tx),
     hasReceipt |-> receipt # "null"]

\* processTransactions(transactions, receipts) and the map of formatOutput.
ProcessTransactions(txs, receipts) ==
    [i \in 1..Len(txs) |-> Delta(txs[i], receipts[i])]

\* processBlock: the positions whose receipt result is fulfilled and truthy.
ValidIndexes(receipts) ==
    SelectSeq([i \in 1..Len(receipts) |-> i], LAMBDA i : receipts[i] # "null")

ValidTransactions(txs, receipts) ==
    [k \in 1..Len(ValidIndexes(receipts)) |-> txs[ValidIndexes(receipts)[k]]]

ValidReceipts(receipts) ==
    [k \in 1..Len(ValidIndexes(receipts)) |->
        receipts[ValidIndexes(receipts)[k]]]

\* The value processBlock resolves with.
ProcessBlockValue(txs, receipts) ==
    IF Len(txs) = 0 \/ Len(ValidIndexes(receipts)) = 0
    THEN <<>>
    ELSE ProcessTransactions(ValidTransactions(txs, receipts),
                             ValidReceipts(receipts))

\* What one iteration of scanBlockRange pushes to allResults.
ScanBlockValue(txs, receipts) ==
    IF Len(txs) = 0 THEN <<>> ELSE ProcessTransactions(txs, receipts)

Unsettled == [done |-> FALSE, value |-> <<>>]

FailedFetches == {b \in ScanBlocks : fetched[b] = "error"}

\* The state the constructor leaves: no scan has been asked for.
ScanRestConstructed ==
    /\ scanMode = "none"
    /\ scanPc = "idle"
    /\ scanEnd = 0
    /\ waveStart = 0
    /\ settled = [b \in ScanBlocks |-> Unsettled]
    /\ arrived = <<>>
    /\ allResults = <<>>
    /\ fetched = [b \in ScanBlocks |-> "none"]
    /\ receiptAnswer = [t \in ScanTxs |-> "none"]
    /\ receiptTries = [t \in ScanTxs |-> 0]
    /\ chainName = "none"
    /\ snapshot = {}
    /\ peakReceipts = 0

ScanConstructed == ScanRestConstructed /\ scanMin = minValue

\* No scan is asked of the scanner: the histories of its scans are empty.
ScanUnused ==
    /\ scanMode = "none"
    /\ scanPc = "idle"
    /\ scanEnd = 0
    /\ waveStart = 0
    /\ settled = <<>>
    /\ arrived = <<>>
    /\ allResults = <<>>
    /\ fetched = <<>>
    /\ receiptAnswer = <<>>
    /\ receiptTries = <<>>
    /\ chainName = "none"
    /\ scanMin = minValue
    /\ snapshot = {}
    /\ peakReceipts = 0

\* The scan is called with a range.
ScanCalled(mode, inputs) ==
    /\ scanPc = "idle"
    /\ scanMode' = mode
    /\ scanPc' = "running"
    /\ \E input \in inputs :
          /\ chainName' = input.chain
          /\ scanEnd' = input.end
    /\ waveStart' = FirstBlock
    /\ snapshot' = watchedAddresses
    /\ UNCHANGED <<settled, arrived, allResults, fetched, receiptAnswer,
                   receiptTries, scanMin, peakReceipts>>
    /\ UNCHANGED outsideScan

ScanBlockRange == ScanCalled("sequential", ScanInputs)

ScanBlockRangeParallel == ScanCalled("parallel", ScanInputs)

ScanBlockRangeShort == ScanCalled("sequential", ShortInputs)

ScanBlockRangeParallelShort == ScanCalled("parallel", ShortInputs)

Missed == {t \in ScanTxs : receiptAnswer[t] \in {"null", "error"}}

Misses(answers) ==
    Cardinality({k \in 1..Len(answers) : answers[k] # "receipt"})

\* The answers to n receipt requests, of which at most budget give no receipt.
ReceiptAnswersTo(n, budget) ==
    UNION {{[k \in 1..n |-> IF k \in S THEN kinds[k] ELSE "receipt"] :
               kinds \in [S -> ReceiptAnswers \ {"receipt"}]} :
              S \in {T \in SUBSET (1..n) : Cardinality(T) <= budget}}

\* The requests one block causes: the block is fetched once and one receipt
\* is requested for each of its filtered transactions.
BlockRequested(b, answer, txs, answers) ==
    /\ answer = "error" => Cardinality(FailedFetches) < MaxFetchFailures
    /\ Cardinality(Missed) + Misses(answers) <= MaxReceiptMisses
    /\ fetched' = [fetched EXCEPT ![b] = answer]
    /\ receiptAnswer' =
          [t \in ScanTxs |->
              IF BlockOf(t) = b /\ \E k \in 1..Len(txs) : txs[k] = t
              THEN answers[CHOOSE k \in 1..Len(txs) : txs[k] = t]
              ELSE receiptAnswer[t]]
    /\ receiptTries' =
          [t \in ScanTxs |->
              IF BlockOf(t) = b /\ \E k \in 1..Len(txs) : txs[k] = t
              THEN receiptTries[t] + 1
              ELSE receiptTries[t]]

\* One iteration of scanBlockRange's loop.
ScanNextBlock ==
    /\ scanPc = "running"
    /\ scanMode = "sequential"
    /\ \E answer \in BlockAnswers :
          LET txs == GetBlockTransactions(waveStart, answer) IN
          \E answers \in ReceiptAnswersTo(Len(txs),
                               MaxReceiptMisses - Cardinality(Missed)) :
             LET receipts == [i \in 1..Len(txs) |->
                                 GetTransactionReceipt(answers[i])] IN
             /\ BlockRequested(waveStart, answer, txs, answers)
             /\ allResults' = allResults \o ScanBlockValue(txs, receipts)
             /\ peakReceipts' = Max(peakReceipts, Min(Len(txs), 1))
    /\ waveStart' = waveStart + 1
    /\ scanPc' = IF waveStart = scanEnd THEN "returned" ELSE "running"
    /\ UNCHANGED <<scanMode, scanEnd, settled, arrived, chainName,
                   scanMin,
                   snapshot>>
    /\ UNCHANGED outsideScan

\* concurrency = Math.min(10, totalBlocks)
Concurrency == Min(ConcurrencyLimit, scanEnd - FirstBlock + 1)

\* blockNumbers.slice(i, i + concurrency)
Wave == waveStart..Min(waveStart + Concurrency - 1, scanEnd)

\* A processBlock promise of the current wave settles.
ProcessBlock(b) ==
    /\ scanPc = "running"
    /\ scanMode = "parallel"
    /\ b \in Wave
    /\ ~settled[b].done
    /\ \E answer \in BlockAnswers :
          LET txs == GetBlockTransactions(b, answer) IN
          \E answers \in ReceiptAnswersTo(Len(txs),
                               MaxReceiptMisses - Cardinality(Missed)) :
             LET receipts == [i \in 1..Len(txs) |->
                                 GetTransactionReceipt(answers[i])]
                 value == ProcessBlockValue(txs, receipts) IN
             /\ BlockRequested(b, answer, txs, answers)
             /\ settled' = [settled EXCEPT ![b] = [done |-> TRUE,
                                                   value |-> value]]
             /\ arrived' = arrived \o value
             /\ peakReceipts' = Max(peakReceipts, Len(txs))
    /\ UNCHANGED <<scanMode, scanPc, scanEnd, waveStart, allResults,
                   chainName,
                   scanMin, snapshot>>
    /\ UNCHANGED outsideScan

ProcessBlocks == \E b \in ScanBlocks : ProcessBlock(b)

RECURSIVE InBatchOrder(_, _)
InBatchOrder(from, to) ==
    IF from > to THEN <<>>
    ELSE settled[from].value \o InBatchOrder(from + 1, to)

CollectAsArrived(from, to) == SubSeq(arrived, Len(allResults) + 1, Len(arrived))

\* batchResults.forEach((result, index) => results.push(...result.value))
Collect(from, to) == InBatchOrder(from, to)

\* Promise.allSettled of the wave resolves: its values are collected, and the
\* next wave starts or the scan returns.
WaveSettled ==
    /\ scanPc = "running"
    /\ scanMode = "parallel"
    /\ \A b \in Wave : settled[b].done
    /\ allResults' =
          allResults \o Collect(waveStart,
                                Min(waveStart + Concurrency - 1, scanEnd))
    /\ waveStart' = waveStart + Concurrency
    /\ scanPc' = IF waveStart + Concurrency > scanEnd THEN "returned"
                                                      ELSE "running"
    /\ settled' = [b \in ScanBlocks |-> Unsettled]
    /\ UNCHANGED <<scanMode, scanEnd, arrived, fetched, receiptAnswer,
                   receiptTries, chainName, scanMin, snapshot,
                   peakReceipts>>
    /\ UNCHANGED outsideScan

\* addWatchedAddress, called by addWallet while the monitor runs.
AddWatchedAddress(a) ==
    /\ ToLowerCase(a) \notin watchedAddresses
    /\ watchedAddresses' = watchedAddresses \cup {ToLowerCase(a)}
    /\ UNCHANGED <<scanVars, detectRest, queueVars, monitorVars, storeVars,
                   analyzeVars, parseVars>>

\* removeWatchedAddress, called by removeWallet while the monitor runs.
RemoveWatchedAddress(a) ==
    /\ ToLowerCase(a) \in watchedAddresses
    /\ watchedAddresses' = watchedAddresses \ {ToLowerCase(a)}
    /\ UNCHANGED <<scanVars, detectRest, queueVars, monitorVars, storeVars,
                   analyzeVars, parseVars>>

\* The command surface adds 0xBB and removes 0xAA.
WalletAdded == AddWatchedAddress("0xbb")

WalletRemoved == RemoveWatchedAddress("0xAA")

NextScan ==
    \/ ScanBlockRange
    \/ ScanBlockRangeParallel
    \/ ScanNextBlock
    \/ ProcessBlocks
    \/ WaveSettled

\* Scans of short ranges while the command surface changes the watched Set.
NextTracked ==
    \/ ScanBlockRangeShort
    \/ ScanBlockRangeParallelShort
    \/ ScanNextBlock
    \/ ProcessBlocks
    \/ WaveSettled
    \/ WalletAdded
    \/ WalletRemoved

-----------------------------------------------------------------------------
(***************************************************************************)
(* Specifications.                                                         *)
(***************************************************************************)
\* The bot is constructed and nothing is sent through it: the histories
\* of its sends are empty.
QueueUnused ==
    /\ messageQueue = <<>>
    /\ isProcessing = FALSE
    /\ rateLimitUntil = 0
    /\ retryCount = 0
    /\ now = 0
    /\ inFlight = {}
    /\ sinkMode = "accept"
    /\ nextMsg = 1
    /\ enqueued = {}
    /\ handed = <<>>
    /\ requeued = <<>>
    /\ delivered = <<>>
    /\ permFail = <<>>
    /\ sendFail = <<>>
    /\ lastAnswer = NoAnswer

QueueConstructed ==
    /\ messageQueue = <<>>
    /\ isProcessing = FALSE
    /\ rateLimitUntil = 0
    /\ retryCount = 0
    /\ now = 0
    /\ inFlight = {}
    /\ sinkMode = "accept"
    /\ nextMsg = 1
    /\ enqueued = {}
    /\ handed = [i \in MsgIds |-> 0]
    /\ requeued = [i \in MsgIds |-> 0]
    /\ delivered = [i \in MsgIds |-> 0]
    /\ permFail = [i \in MsgIds |-> 0]
    /\ sendFail = [i \in MsgIds |-> 0]
    /\ lastAnswer = NoAnswer

InitSpecQueue ==
    InitQueue /\ MonitorConstructed /\ StoreConstructed /\ DetectConstructed
        /\ ScanConstructed /\ AnalyzeConstructed /\ ParseConstructed

SpecQueue == InitSpecQueue /\ [][NextQueue]_vars

SpecQueueFair ==
    /\ SpecQueue
    /\ WF_vars(ProcessQueue)
    /\ WF_vars(SinkAnswer)
    /\ WF_vars(AdvanceTime)

InitSpecMonitor ==
    InitMonitor /\ QueueConstructed /\ StoreConstructed /\ DetectConstructed
        /\ ScanConstructed /\ AnalyzeConstructed /\ ParseConstructed

SpecMonitor == InitSpecMonitor /\ [][NextMonitor]_vars

SpecLifecycle == InitSpecMonitor /\ [][NextLifecycle]_vars

InitSpecCatchUp ==
    InitCatchUp /\ QueueConstructed /\ StoreConstructed /\ DetectConstructed
        /\ ScanConstructed /\ AnalyzeConstructed /\ ParseConstructed

\* The scan loop of a monitor configured with the large batch width.
SpecCatchUp == InitSpecCatchUp /\ [][NextMonitor]_vars

\* The awaited promises of the loop settle: sendHtml resolves after 50 ms
\* and the sleep timers fire.
SpecLifecycleFair ==
    /\ SpecLifecycle
    /\ WF_vars(ErrorNotification)
    /\ WF_vars(Wake)
    /\ WF_vars(TickBegin)

InitSpecStore ==
    InitStore /\ QueueUnused /\ MonitorUnused /\ DetectConstructed
        /\ ScanUnused /\ AnalyzeConstructed /\ ParseConstructed

InitSpecDetect ==
    DetectConstructed /\ StoreConstructed /\ QueueConstructed
        /\ MonitorConstructed /\ ScanConstructed /\ AnalyzeConstructed
        /\ ParseConstructed

SpecDetect == InitSpecDetect /\ [][NextDetect]_vars

SpecCommands == InitSpecDetect /\ [][NextCommands]_vars

SpecStore == InitSpecStore /\ [][NextStore]_vars

SpecWallets == InitSpecStore /\ [][NextWallets]_vars

\* start() has handed the tracked addresses to the scanner.
WatchedAtStart == {"0xaa"}

InitSpecScan ==
    ScanConstructed /\ QueueConstructed /\ MonitorConstructed
        /\ StoreConstructed /\ DetectRestConstructed
        /\ watchedAddresses = WatchedAtStart /\ AnalyzeConstructed
        /\ ParseConstructed

SpecScan == InitSpecScan /\ [][NextScan]_vars

InitSpecTracked ==
    ScanRestConstructed /\ scanMin \in MinValues /\ QueueConstructed
        /\ MonitorConstructed /\ StoreConstructed /\ DetectRestConstructed
        /\ watchedAddresses = WatchedAtStart /\ AnalyzeConstructed
        /\ ParseConstructed

SpecTracked == InitSpecTracked /\ [][NextTracked]_vars

\* processTransactions has taken a transaction; the tracked Set is any the
\* monitor can hold, and the scanner watches the same addresses.
InitSpecAnalyze ==
    /\ currentTx \in {ParseTransaction(raw) : raw \in AnalyzerRawTxs}
    /\ monitoredAddresses \in TrackedSets
    /\ watchedAddresses = {ToLowerCase(w) : w \in monitoredAddresses}
    /\ analysis = NoAnalysis
    /\ analyzePc = "taken"
    /\ DetectRunConstructed /\ QueueConstructed /\ MonitorConstructed
    /\ StoreConstructed /\ ScanConstructed /\ ParseConstructed

SpecAnalyze == InitSpecAnalyze /\ [][NextAnalyze]_vars

SpecEnroll == InitSpecAnalyze /\ [][NextEnroll]_vars

InitSpecParse ==
    ParseConstructed /\ QueueUnused /\ MonitorUnused /\ StoreConstructed
        /\ DetectConstructed /\ ScanUnused /\ AnalyzeConstructed

SpecParse == InitSpecParse /\ [][NextParse]_vars

-----------------------------------------------------------------------------
(***************************************************************************)
(* Claims about the delivery queue.                                        *)
(***************************************************************************)
InQueue(i) == \E k \in 1..Len(messageQueue) : messageQueue[k].id = i

Sending(i) == \E m \in inFlight : m.id = i

\* C1: with a sink that answers every send with 429, every alert is
\* re-queued at most maxRetries times; after its (maxRetries+1)-th refused
\* send it is dropped (in neither the buffer nor a send), which rules out a
\* further re-queue, and the permanent failure is reported exactly once.
C1_ThrottledRetriesBounded ==
    sinkMode = "throttle" =>
        \A i \in MsgIds :
            /\ requeued[i] <= maxRetries
            /\ permFail[i] <= 1
            /\ delivered[i] = 0 /\ sendFail[i] = 0
            /\ permFail[i] = 1 =>
                 requeued[i] = maxRetries /\ ~InQueue(i) /\ ~Sending(i)
            /\ (handed[i] = maxRetries + 1 /\ ~Sending(i)) =>
                 permFail[i] = 1
            /\ handed[i] <= maxRetries + 1

C1_Witness ==
    /\ sinkMode = "throttle"
    /\ \E i \in enqueued :
          requeued[i] = maxRetries /\ permFail[i] = 1 /\ ~InQueue(i)

\* C2: with a sink that accepts every send, every alert passed to
\* queueMessage is handed to the sink exactly once: never twice, it stays in
\* the buffer (once) until it is handed over, and it is delivered by that one
\* send.
C2_AcceptedExactlyOnce ==
    sinkMode = "accept" =>
        \A i \in enqueued :
            /\ handed[i] <= 1
            /\ InQueue(i) <=> handed[i] = 0
            /\ Cardinality({k \in 1..Len(messageQueue) :
                               messageQueue[k].id = i}) <= 1
            /\ delivered[i] = (IF Sending(i) \/ InQueue(i) THEN 0 ELSE 1)
            /\ requeued[i] = 0 /\ permFail[i] = 0 /\ sendFail[i] = 0

C2_Witness ==
    /\ sinkMode = "accept"
    /\ Cardinality(enqueued) > batchSize
    /\ \A i \in enqueued : handed[i] = 1 /\ delivered[i] = 1

\* The stage of an alert in the state machine of the delivery queue.
Stage(i) ==
    CASE InQueue(i)                        -> "Queued"
      [] Sending(i)                        -> "Sending"
      [] delivered[i] > 0                  -> "Delivered"
      [] permFail[i] + sendFail[i] > 0     -> "Dropped"
      [] OTHER                             -> "None"

Attempt(i) ==
    IF InQueue(i)
    THEN (CHOOSE k \in 1..Len(messageQueue) : messageQueue[k].id = i)
    ELSE 0

AttemptOf(i) ==
    IF InQueue(i) THEN messageQueue[Attempt(i)].retryCount
    ELSE IF Sending(i) THEN (CHOOSE m \in inFlight : m.id = i).retryCount
    ELSE 0

Terminal(i) == delivered[i] + permFail[i] + sendFail[i] = 1

StageStep(i) ==
    \/ Stage(i)' = Stage(i) /\ AttemptOf(i)' = AttemptOf(i)
    \/ Stage(i) = "None" /\ Stage(i)' \in {"Queued", "Sending"}
    \/ Stage(i) = "Queued" /\ Stage(i)' = "Sending"
          /\ AttemptOf(i)' = AttemptOf(i)
    \/ Stage(i) = "Sending" /\ Stage(i)' = "Delivered"
    \/ Stage(i) = "Sending" /\ Stage(i)' = "Queued"
          /\ AttemptOf(i)' = AttemptOf(i) + 1
    \/ Stage(i) = "Sending" /\ Stage(i)' = "Dropped"

\* C3: without clearQueue, every enqueued alert eventually reaches exactly
\* one terminal outcome (delivered, or dropped with a logged report), moves
\* only along Queued -> Sending -> {Delivered | Requeued(attempt+1) |
\* Dropped}, and is never in the buffer or in a send once terminal; the
\* dispatcher timer keeps firing, the sink answers and time advances.
\* (Terminal is stable, so "again and again all enqueued alerts are
\* terminal" gives "each enqueued alert eventually is".)
C3_EveryAlertTerminates ==
    /\ [][\A i \in MsgIds : StageStep(i)]_vars
    /\ [](\A i \in MsgIds :
            /\ delivered[i] + permFail[i] + sendFail[i] <= 1
            /\ Terminal(i) <=> Stage(i) \in {"Delivered", "Dropped"})
    /\ []<>(\A i \in enqueued : Terminal(i))

C3_Witness ==
    /\ sinkMode = "mixed"
    /\ \E i, j \in enqueued :
          /\ delivered[i] = 1 /\ requeued[i] > 0
          /\ sendFail[j] = 1

\* The send whose answer the step handles, when the step is the rest of a
\* sendMessageWithRetry.
AnswerHandled == inFlight' # inFlight /\ inFlight' \subseteq inFlight

SendAnswered == CHOOSE m \in inFlight \ inFlight' : TRUE

\* The buffer as it was is still in the buffer, in order.
BufferKept ==
    \E k \in 0..(Len(messageQueue') - Len(messageQueue)) :
        SubSeq(messageQueue', k + 1, k + Len(messageQueue)) = messageQueue

\* C11: while the current time is earlier than rateLimitUntil no step
\* removes anything from the buffer, hands a buffered item to the sink or
\* opens a batch: a dispatcher tick is a no-op.
C11_ThrottleWindowBlocksDispatcher ==
    [][now < rateLimitUntil =>
          /\ BufferKept
          /\ \A m \in inFlight' : m.via = "queue" => m \in inFlight
          /\ isProcessing' => isProcessing]_vars

\* A tick that would have drained the buffer but for the throttle window.
C11_Witness ==
    /\ now < rateLimitUntil
    /\ Len(messageQueue) > 0
    /\ ~isProcessing

\* C12: when a send is answered with a throttling response, rateLimitUntil
\* becomes now + the stated retry-after seconds (2 seconds when none is
\* stated), and an item whose attempt count is below the maximum is put back
\* at the front of the buffer with its attempt count incremented by one.
C12_ThrottleSetsWindowAndRequeues ==
    [][AnswerHandled /\ lastAnswer'.kind = "429" =>
          /\ rateLimitUntil' =
                now + SecondMs * (IF lastAnswer'.retryAfter = NoRetryAfter
                                  THEN DefaultRetryAfter
                                  ELSE lastAnswer'.retryAfter)
          /\ SendAnswered.retryCount < maxRetries =>
                messageQueue' =
                    <<[id |-> SendAnswered.id,
                       retryCount |-> SendAnswered.retryCount + 1]>>
                    \o messageQueue]_vars

\* A throttling answer that stated one second put its item back in front of
\* an item that was waiting.
C12_Witness ==
    /\ lastAnswer = [kind |-> "429", retryAfter |-> 1]
    /\ rateLimitUntil = now + SecondMs
    /\ Len(messageQueue) > 1
    /\ messageQueue[1].retryCount > messageQueue[2].retryCount

\* C13: a send that fails with a non-throttling error removes the item for
\* good: the failure is logged, rateLimitUntil and the buffer are left as
\* they are, and the item is never in the buffer or in a send again.
C13_OtherErrorDropsItem ==
    /\ [][AnswerHandled /\ lastAnswer'.kind = "error" =>
             /\ sendFail'[SendAnswered.id] = sendFail[SendAnswered.id] + 1
             /\ messageQueue' = messageQueue
             /\ rateLimitUntil' = rateLimitUntil
             /\ requeued' = requeued]_vars
    /\ [](\A i \in MsgIds : sendFail[i] > 0 => ~InQueue(i) /\ ~Sending(i))
    /\ [][\A i \in MsgIds : sendFail[i] > 0 => requeued'[i] = requeued[i]]_vars

\* A non-throttling failure of a retried item while the throttle window is
\* open and another item waits in the buffer.
C13_Witness ==
    /\ lastAnswer.kind = "error"
    /\ now < rateLimitUntil
    /\ Len(messageQueue) > 0
    /\ \E i \in MsgIds : sendFail[i] = 1 /\ requeued[i] > 0

-----------------------------------------------------------------------------
(***************************************************************************)
(* Claims about the scan loop.                                             *)
(***************************************************************************)
\* A run is under way: start() has returned and the process has not ended.
InRun == pc \notin {"init", "killed"}

\* C4: after start(), lastProcessedBlock never decreases, whatever the
\* head-block request answers (0 on failure, a number not above the
\* checkpoint, or a new head).
C4_CheckpointMonotonic ==
    [][InRun => lastProcessedBlock' >= lastProcessedBlock]_vars

\* A tick that began with the checkpoint at the head (so that every answer,
\* the failure answer 0 included, is not above it) has returned.
C4_Witness ==
    /\ pc = "sleeping"
    /\ lastProcessedBlock > initCheckpoint
    /\ lastProcessedBlock = head
    /\ tickStart.checkpoint = lastProcessedBlock

\* C5: the completed scan ranges are contiguous and disjoint: a tick's range
\* starts at checkpoint+1 and the checkpoint becomes its end, so every block
\* above the initial checkpoint and up to the checkpoint lies in exactly one
\* completed range, and no other block lies in any.
C5_RangesTileTheChain ==
    /\ \A b \in Blocks :
          covered[b] =
            (IF initCheckpoint < b /\ b <= lastProcessedBlock THEN 1 ELSE 0)
    /\ pc \in {"scanning", "processing"} =>
          /\ startBlock = lastProcessedBlock + 1
          /\ startBlock <= endBlock
          /\ endBlock <= head

\* Two or more ticks, a catch-up tick among them, have completed.
C5_Witness ==
    /\ pc = "sleeping"
    /\ initCheckpoint = 0
    /\ lastProcessedBlock = MaxHead
    /\ processedBlocks > WideBatch

InTick == pc \in {"scanning", "processing"}

TickFailed == pc \in {"caught", "cooldown"}

\* C6: lastProcessedBlock is written only when the scan has returned and the
\* last of its transactions has been processed; while a tick is under way,
\* and after a tick that ended with an error, lastProcessedBlock and the
\* processed-block counter are what they were when the tick began.
C6_CheckpointOnlyAfterBatch ==
    /\ []((InTick \/ TickFailed) =>
            /\ lastProcessedBlock = tickStart.checkpoint
            /\ processedBlocks = tickStart.processed)
    /\ [][(InRun /\ lastProcessedBlock' # lastProcessedBlock) =>
            /\ \/ pc = "scanning"
               \/ pc = "processing" /\ txIdx + 1 = results
            /\ pc' = "sleeping"
            /\ lastProcessedBlock' = endBlock]_vars

\* A tick ended with an error after earlier ticks had processed
\* transactions and advanced the checkpoint.
C6_Witness ==
    /\ pc = "cooldown"
    /\ lastProcessedBlock > initCheckpoint
    /\ head > lastProcessedBlock
    /\ foundTransactions > 0

\* C14: a tick that raised an error is followed by the error alert (when its
\* emission does not itself fail), the cooldown and the loop's next
\* iteration, which is another tick unless stop() has been called; no error
\* of a tick or of the alert's emission ends the loop, which ends only after
\* stop().
C14_LoopSurvivesTickErrors ==
    /\ [](pc # "crashed")
    /\ [](pc = "exited" => ~isRunning)
    /\ [][pc = "caught" /\ pc' # pc =>
            /\ pc' \in {"cooldown", "killed"}
            /\ lastAlert' \in {"error", lastAlert}]_vars
    /\ [][pc = "cooldown" /\ pc' # pc => pc' \in {"loop", "killed"}]_vars
    /\ [][pc' = "killed" => ~isRunning]_vars
    /\ (pc = "caught" /\ isRunning) ~>
            (~isRunning \/ pc \in {"scanning", "sleeping"})

\* After a tick that ended with an error and its alert, the running loop is in
\* another tick.
C14_Witness ==
    /\ pc = "scanning"
    /\ isRunning
    /\ lastAlert = "error"
    /\ lastProcessedBlock = initCheckpoint

\* C15: when stop() is called while a tick is in flight, the tick completes
\* before the process halts and before the store connection is closed (a
\* tick is in flight only while the connection is open, and the process never
\* ends inside a tick), and no tick begins once stop() has been called.
C15_StopDrainsTheTick ==
    /\ [](InTick => connected)
    /\ [][pc' = "killed" /\ pc # "killed" => ~InTick]_vars
    /\ [][~isRunning /\ pc = "loop" => pc' \in {"loop", "exited", "killed"}]_vars

\* C16: when stop() has returned, and when the process has halted, the status
\* summary has been emitted to the sink; it is not in the delivery buffer.
C16_StatusDeliveredBeforeHalt ==
    /\ [](stopPc = "returned" => statusAlert = "delivered")
    /\ [](pc = "killed" => statusAlert = "delivered")

\* C17: the run started after a stop() begins with the checkpoint the stopped
\* run held, so its first tick starts at the following block.
C17_CheckpointSurvivesStop ==
    [][pc = "killed" /\ pc' = "loop" =>
          lastProcessedBlock' = lastProcessedBlock]_vars

-----------------------------------------------------------------------------
(***************************************************************************)
(* Claims about the range scans.                                           *)
(***************************************************************************)
TxOf(d) == TxKey(d.block, d.tx)

Occurrences(t) == Cardinality({k \in 1..Len(allResults) : TxOf(allResults[k]) = t})

\* C18: whichever blocks' fetches fail, a sequential or parallel scan goes
\* through the whole range and returns; what it returns holds no delta of a
\* block whose fetch failed and holds, exactly once, the delta of every
\* transaction with a receipt of every block whose fetch did not fail.
C18_FailedBlocksAreSkipped ==
    scanPc = "returned" =>
        /\ \A b \in FirstBlock..scanEnd : fetched[b] # "none"
        /\ \A k \in 1..Len(allResults) : fetched[allResults[k].block] = "block"
        /\ \A t \in ScanTxs :
              (BlockOf(t) <= scanEnd /\ fetched[BlockOf(t)] = "block"
                  /\ receiptAnswer[t] = "receipt") => Occurrences(t) = 1

\* A scan of the long range has returned the deltas of the first and of the
\* last block although the second block, which has transactions, and another
\* block could not be fetched.
C18_Witness ==
    /\ scanPc = "returned"
    /\ scanEnd = MaxRangeLen
    /\ fetched[2] = "error"
    /\ Cardinality(FailedFetches) = MaxFetchFailures
    /\ Len(allResults) = 2
    /\ allResults[1].block = 1 /\ allResults[2].block = MaxRangeLen

Before(d, e) == d.block < e.block \/ (d.block = e.block /\ d.tx < e.tx)

\* C19: the deltas the parallel scan has collected are in ascending block
\* order and, within a block, in transaction order, in whatever order the
\* fetches of a wave complete, within a wave and from wave to wave.
C19_ParallelResultsOrdered ==
    scanMode = "parallel" =>
        \A j, k \in 1..Len(allResults) :
            j < k => Before(allResults[j], allResults[k])

\* A two-wave scan has returned deltas of both waves, and the second block's
\* promise had settled before the first block's.
C19_Witness ==
    /\ scanMode = "parallel"
    /\ scanPc = "returned"
    /\ Len(allResults) = 4
    /\ arrived[1].block = 2
    /\ allResults[1].block = 1
    /\ allResults[4].block = MaxRangeLen

\* C20: in both scans a filtered transaction whose receipt request gave null
\* or failed has no delta in the results, and no transaction's receipt is
\* requested more than once.
C20_NoReceiptNoDelta ==
    /\ \A k \in 1..Len(allResults) :
          receiptAnswer[TxOf(allResults[k])] = "receipt"
    /\ \A t \in ScanTxs : receiptTries[t] <= 1

\* The transactions the filter is asked about.
FilterInputs ==
    [from : Addrs, to : Addrs, value : {0, 1, maxValue, maxValue + 1}]

SameAddress(a, w) == ToLowerCase(a) = ToLowerCase(w)

InValueRange(tx) == scanMin <= tx.value /\ tx.value <= maxValue

Tracks(tx) ==
    \E w \in watchedAddresses : SameAddress(tx.from, w) \/ SameAddress(tx.to, w)

RawTx(t) == Block(BlockOf(t))[IndexOf(t)]

\* C21: a transaction passes the filter iff its value is within
\* [minValue, maxValue] and its from or to, compared without regard to case,
\* is in the watched Set; and a receipt is requested only for a transaction
\* of the chain that passes the filter.
C21_FilterThenReceipt ==
    /\ [](\A tx \in FilterInputs :
             FilterTransaction(tx) <=> (InValueRange(tx) /\ Tracks(tx)))
    /\ [][\A t \in ScanTxs :
             receiptTries'[t] > receiptTries[t] =>
                 /\ IndexOf(t) <= Len(Block(BlockOf(t)))
                 /\ InValueRange(RawTx(t)) /\ Tracks(RawTx(t))]_vars

\* A scan with minValue 1 has gone through blocks 2 and 3: a receipt was
\* requested for the transaction at the upper bound only, and none for the
\* one below minValue, the one above maxValue and the one of other parties.
C21_Witness ==
    /\ scanPc = "returned"
    /\ scanMin = MaxMinValue
    /\ watchedAddresses = WatchedAtStart /\ snapshot = WatchedAtStart
    /\ fetched[2] = "block" /\ fetched[3] = "block"
    /\ receiptTries[TxKey(2, 3)] = 1
    /\ receiptTries[TxKey(2, 1)] = 0
    /\ receiptTries[TxKey(2, 2)] = 0
    /\ receiptTries[TxKey(3, 2)] = 0

\* C22: during a parallel scan no more than ConcurrencyLimit block fetches
\* and no more than ConcurrencyLimit receipt requests are in flight at once.
\* The blocks of a wave are fetched together, and the receipts of one block
\* are requested together.
C22_FanOutBounded ==
    scanMode = "parallel" =>
        /\ scanPc = "running" => Cardinality(Wave) <= ConcurrencyLimit
        /\ peakReceipts <= ConcurrencyLimit

TracksIn(set, tx) ==
    \E w \in set : SameAddress(tx.from, w) \/ SameAddress(tx.to, w)

\* C23: every block of a scan is filtered against the watched Set as it was
\* when the scan was called: when the scan returns, the transactions of its
\* fetched blocks for which a receipt was requested are those that pass the
\* filter with that Set.
C23_FilterUsesSnapshot ==
    scanPc = "returned" =>
        \A t \in ScanTxs :
            (BlockOf(t) <= scanEnd /\ IndexOf(t) <= Len(Block(BlockOf(t)))
                /\ fetched[BlockOf(t)] = "block") =>
              (receiptTries[t] > 0 <=>
                  (InValueRange(RawTx(t)) /\ TracksIn(snapshot, RawTx(t))))

-----------------------------------------------------------------------------
(***************************************************************************)
(* Claims about the graph store.                                           *)
(***************************************************************************)
MembersOf(k) == {w \in allWallets : ToLowerCase(w) = k}

\* C7: inserting the same wallet twice, sequentially or concurrently and in
\* any letter case, leaves exactly one stored node, and the second attempt
\* never changes a field of the node stored first (it fails with
\* already-exists or does nothing).
C7_DuplicateInsertKeepsFirstNode ==
    /\ [](\A k \in Keys : Cardinality(MembersOf(k)) <= 1)
    /\ [][\A k \in Keys :
             nodes[k] # NoNode /\ nodes'[k] # NoNode => nodes'[k] = nodes[k]]_vars

-----------------------------------------------------------------------------
(***************************************************************************)
(* Claims about the detection of new wallets.                              *)
(***************************************************************************)
\* The wallet is in the in-memory tracked set (in any letter case) or in the
\* store.
Tracked(w) ==
    \/ \E a \in monitoredAddresses : ToLowerCase(a) = w
    \/ ExistsWallet(w)

\* C8: the detector enrolls a wallet at most once: no wallet gets a second
\* enrollment alert, a step taken while a wallet is tracked neither queues
\* an enrollment alert for it nor logs an enrollment error for it, and the
\* new-wallet counter never exceeds the number of wallets enrolled.
C8_EnrollsAtMostOnce ==
    /\ [](\A w \in Keys : announced[w] <= 1)
    /\ [](newWalletsAdded <= Cardinality({w \in Keys : announced[w] > 0}))
    /\ [][\A w \in Keys :
             Tracked(w) =>
                 /\ announced'[w] = announced[w]
                 /\ w \in erroredWallets' => w \in erroredWallets]_vars

\* C9: after an automatic enrollment the candidate is in the store with the
\* inducing wallet as its referrer, and exactly one enrollment alert was
\* queued for it.
C9_EnrollmentStoresAndAnnounces ==
    \A e \in enrollments :
        /\ ExistsWallet(e.wallet)
        /\ nodes[e.wallet].refer = e.refer
        /\ announced[e.wallet] = 1

\* The address is in the in-memory tracked Set, in any letter case.
InTrackedSet(a) == \E w \in monitoredAddresses : SameAddress(a, w)

TokenOnly(tx) ==
    ~HasBNBTransfer(tx) /\ HasOnlyOneTokenType(tx.erc20Changes)

\* The token change as the token-only path describes an enrollment: the
\* token's minimum is configured and met, the sender is tracked, the
\* recipient is untracked and has no deployed code.
TokenChangeQualifies(change) ==
    /\ TokenMinValue(change.tokenAddress) # 0
    /\ change.formattedValue >= TokenMinValue(change.tokenAddress)
    /\ InTrackedSet(change.from)
    /\ ~InTrackedSet(change.to)
    /\ change.to \notin Contracts

\* C24: when processTransactions is through with a transaction that has no
\* native movement and one token contract, and one of its token changes
\* qualifies (minimum met, sender tracked, recipient untracked and without
\* code), the detector has taken the transaction up: it is about to put the
\* recipient forward or has done so.
C24_TokenPathEnrolls ==
    (analyzePc = "done" /\ TokenOnly(currentTx)) =>
        \A i \in 1..Len(currentTx.erc20Changes) :
            TokenChangeQualifies(currentTx.erc20Changes[i]) => det.pc # "idle"

\* C25: no address with deployed code is ever enrolled by the detector, on
\* the native path or on the token path: it is in no enrollment and no
\* enrollment alert is queued for it.
C25_NoContractEnrolled ==
    /\ \A e \in enrollments : e.wallet \notin Contracts
    /\ \A w \in Keys : w \in Contracts => announced[w] = 0

C25_Witness ==
    /\ det.pc = "isEOA"
    /\ det.idx = 2
    /\ det.tx.erc20Changes[1].to \in Contracts
    /\ ChangeEligible(det.tx.erc20Changes[1])
    /\ enrollments = {}

\* C26: when processTransactions is through with a transaction of a tracked
\* sender that moves a nonzero native amount of at least the configured
\* minimum, carries no token change, and goes to an untracked address
\* without deployed code, the detector has taken the recipient up as a
\* candidate with the sender as inducer.
C26_NativePathEnrolls ==
    ( /\ analyzePc = "done"
      /\ analysis.hasActivity
      /\ HasBNBTransfer(currentTx)
      /\ Len(currentTx.erc20Changes) = 0
      /\ currentTx.bnbChange.to.num >= minValue
      /\ ~InTrackedSet(currentTx.to)
      /\ currentTx.to \notin Contracts )
    => \/ det.pc = "notify"
       \/ /\ det.pc = "isEOA"
          /\ det.wallet = ToLowerCase(currentTx.to)
          /\ det.fromAddress = ToLowerCase(currentTx.from)

\* C27: the step in which the exchange lookup flags a candidate neither adds
\* it to the tracked Set or the watched Set, nor writes the store, nor
\* queues an enrollment alert, nor counts it as a new wallet.
C27_FlaggedNeverEnrolled ==
    [][flaggedWallets' # flaggedWallets =>
          /\ UNCHANGED <<monitoredAddresses, watchedAddresses, addressNames,
                         messageQueue, announced, enrollments,
                         newWalletsAdded, nodes, allWallets>>
          /\ det'.pc # "announce"]_vars

C27_Witness ==
    /\ "0xbb" \in flaggedWallets
    /\ "0xbb" \notin monitoredAddresses
    /\ announced["0xbb"] = 0
    /\ det.pc = "idle"
    /\ sentNotifications = 1

\* C28: when the sender of the transaction is not in the tracked Set (in any
\* letter case), the analysis has hasActivity = false and empty sent and
\* received, whether or not the recipient or a party of a token change is
\* tracked.
C28_UntrackedSenderNoActivity ==
    (analyzePc # "taken" /\ ~InTrackedSet(currentTx.from)) =>
        /\ ~analysis.hasActivity
        /\ analysis.sent = <<>>
        /\ analysis.received = <<>>

C28_Witness ==
    /\ analyzePc = "analyzed"
    /\ ~InTrackedSet(currentTx.from)
    /\ InTrackedSet(currentTx.to)
    /\ HasBNBTransfer(currentTx)
    /\ \E i \in 1..Len(currentTx.erc20Changes) :
          InTrackedSet(currentTx.erc20Changes[i].from)
    /\ ~analysis.hasActivity

\* C29: the analysis has hasActivity = true iff sent or received holds at
\* least one entry.
C29_ActivityIffEntries ==
    analyzePc # "taken" =>
        (analysis.hasActivity <=>
             Len(analysis.sent) + Len(analysis.received) > 0)

\* The token changes of the transaction that satisfy the test, in their
\* original order, as entries.
OwnChanges(Test(_)) ==
    LET kept == SelectSeq(currentTx.erc20Changes, Test)
    IN [k \in 1..Len(kept) |-> TokenEntry(kept[k])]

FromSender(change) == SameAddress(change.from, currentTx.from)

ToSender(change) == SameAddress(change.to, currentTx.from)

\* The native amount as an entry of sent, empty when nothing is moved.
NativeEntry ==
    IF HasBNBTransfer(currentTx)
    THEN <<[type |-> "bnb", formattedValue |-> currentTx.bnbChange.to,
            from |-> ToLowerCase(currentTx.from),
            to |-> ToLowerCase(currentTx.to)]>>
    ELSE <<>>

\* C30: when the sender of the transaction is tracked, sent is the native
\* amount (if nonzero) followed by the token changes that come from the
\* sender, and received is the token changes that go to the sender, each in
\* the order of the token changes.
C30_SentAndReceived ==
    (analyzePc # "taken" /\ InTrackedSet(currentTx.from)) =>
        /\ analysis.sent = NativeEntry \o OwnChanges(FromSender)
        /\ analysis.received = OwnChanges(ToSender)

\* The loop's turn k: the transaction taken and the result pushed for it.
TakenAt(k) == transactionsSeen[k]

ResultsOf(k) == SelectSeq(parsedResults, LAMBDA r : r.hash = k)

\* One amount text is the other with the sign turned.
Negated(a, b) == a.integer = b.integer /\ a.num = 0 - b.num

\* C31: every transaction without call payload (data '0x') is classified
\* as a native transfer whose bnbChange.from is the negated bnbChange.to
\* when its value is positive, and as a contract call when its value is
\* zero, whatever its to field holds, a missing to included.
C31_EmptyPayloadClassified ==
    \A k \in 1..Len(parsedResults) :
        LET r == parsedResults[k]
        IN r.inputData = "0x" =>
              IF r.value > 0
              THEN /\ r.transactionType = "bnb_transfer"
                   /\ Negated(r.bnbChange.from, r.bnbChange.to)
              ELSE r.transactionType = "contract_call"

\* A log of the kinds parseTransferEvent fails on.
Malformed(log) == log \in {"shortTopics", "badValue"}

HasMalformedLog(transaction) ==
    /\ transaction.receipt
    /\ \E i \in 1..Len(transaction.logs) : Malformed(transaction.logs[i])

\* C32: a transaction with a Transfer log whose topics are malformed or
\* whose value does not decode is left out of the results as a whole, and
\* every other transaction of the batch has its result in them.
C32_MalformedLogSkipsTransaction ==
    \A k \in 1..Len(transactionsSeen) :
        IF HasMalformedLog(TakenAt(k))
        THEN ResultsOf(k) = <<>>
        ELSE Len(ResultsOf(k)) = 1

\* The alerts passed to sendHtmlImmediate: the ids given out that were not
\* passed to queueMessage.
Immediate(i) == i \in 1..(nextMsg - 1) /\ i \notin enqueued

\* C33: sendHtmlImmediate hands its message straight to the sink and the
\* message is never in the delivery buffer, whatever the sink answers.
C33_ImmediateNeverBuffered ==
    \A k \in 1..Len(messageQueue) : ~Immediate(messageQueue[k].id)

\* The sends of the dispatcher that are awaiting the sink's answer.
DispatcherSends == {m \in inFlight : m.via = "queue"}

\* C34: a run of processQueue takes at most batchSize alerts off the
\* buffer; while the batch of an earlier run is in flight no step takes
\* anything off the buffer; so at most batchSize alerts of the buffer are
\* being sent by the dispatcher at any time.
C34_DispatcherSendsBounded ==
    /\ [](Cardinality(DispatcherSends) <= batchSize)
    /\ [][/\ Len(messageQueue') >= Len(messageQueue) - batchSize
          /\ isProcessing => Len(messageQueue') >= Len(messageQueue)]_vars

C34_Witness ==
    /\ Cardinality(DispatcherSends) = batchSize
    /\ isProcessing
    /\ Len(messageQueue) > 0

\* C37: the alerts of the buffer that queueMessage took stand in the order
\* in which queueMessage took them, also after alerts of one batch were
\* throttled and put back at the front.
C37_BufferKeepsEnqueueOrder ==
    \A j, k \in 1..Len(messageQueue) :
        (/\ j < k
         /\ messageQueue[j].id \in enqueued
         /\ messageQueue[k].id \in enqueued)
            => messageQueue[j].id < messageQueue[k].id

\* The range a tick scans, given the block number the provider answered:
\* it begins after the checkpoint and does not end beyond the head; with a
\* backlog of at most WideBacklog blocks it is at most the configured batch
\* width; with a larger backlog it is at least the configured batch width
\* and at most WideBatch blocks.
RangeAsStated(checkpoint, currentBlock, first, last) ==
    LET backlog == currentBlock - checkpoint
        width == last - first + 1
    IN /\ first = checkpoint + 1
       /\ last <= currentBlock
       /\ currentBlock <= head
       /\ backlog <= WideBacklog => width <= cfgBatchSize
       /\ backlog > WideBacklog =>
             width >= cfgBatchSize /\ width <= WideBatch

\* C35: every tick scans [checkpoint + 1, end] with end not beyond the
\* head; the range is at most the configured batch width while the backlog
\* is at most 20 blocks, and with a larger backlog it is widened, never
\* below the configured batch width, up to 20 blocks.
C35_RangeWidth ==
    [][(pc = "loop" /\ pc' = "scanning") =>
          \E currentBlock \in LatestBlockAnswers :
              RangeAsStated(lastProcessedBlock, currentBlock,
                            startBlock', endBlock')]_vars

\* C36: an error raised while a transaction of the batch is analyzed,
\* notified or checked for a new wallet is caught in the loop: the loop
\* goes on to the next transaction or, after the last one, the tick closes
\* with the checkpoint at the end of the batch; the processing of a batch
\* ends in no other way.
C36_TransactionErrorsContained ==
    /\ [][(txFailed' /\ ~txFailed) =>
            /\ pc = "processing"
            /\ \/ pc' = "processing" /\ txIdx' = txIdx + 1
               \/ pc' = "sleeping" /\ lastProcessedBlock' = endBlock]_vars
    /\ [][(pc = "processing" /\ pc' # "processing") =>
            /\ LastTransaction
            /\ pc' = "sleeping"
            /\ lastProcessedBlock' = endBlock]_vars

\* A tick whose batch had a failing transaction has closed and advanced the
\* checkpoint.
C36_Witness ==
    /\ txFailed
    /\ pc = "sleeping"
    /\ lastProcessedBlock > tickStart.checkpoint
    /\ foundTransactions > 1

\* No call of the store is suspended at a command.
StoreQuiescent == \A c \in Callers : calls[c].pc \in {"idle", "done", "failed"}

\* C38: whenever no store operation is in progress, getAllWallets returns a
\* wallet exactly when existsWallet answers true for it, whatever the
\* interleaving of the inserts, removals and clearAllWallets before.
C38_ListedIffExists ==
    StoreQuiescent =>
        \A w \in Keys \cup GetAllWallets :
            w \in GetAllWallets <=> ExistsWallet(w)

\* No manual command, no enrollment and no store call is under way.
AllCompleted ==
    /\ manual.pc = "idle"
    /\ det.pc = "idle"
    /\ \A c \in Callers : calls[c].pc \in {"idle", "done", "failed"}

NativeTransferFrom(w) ==
    ParseTransaction([from |-> w, to |-> "0xcc", value |-> 2, logs |-> <<>>])

\* C40: while no manual command is under way, a transaction sent from a
\* wallet that addWallet has stored (and removeWallet has not removed) is
\* analyzed with hasActivity true, and one sent from a wallet that is not
\* stored and was not enrolled is analyzed with hasActivity false, in
\* whatever letter case the commands were given the address.
C40_CommandsTakeEffect ==
    manual.pc = "idle" =>
        \A w \in Keys \ Contracts :
            /\ ExistsWallet(w) => HasActivity(NativeTransferFrom(w))
            /\ (~ExistsWallet(w) /\ ~\E e \in enrollments : e.wallet = w)
                  => ~HasActivity(NativeTransferFrom(w))

=============================================================================
